---- MODULE Spec2Model ----
(***************************************************************************)
(* Model of the TokenSim REST API output interpretation engine:            *)
(* OutputParser (detectFileType, the line decoders, parseFile,             *)
(* buildUnifiedModel, parseTerminalOutput, parseOutput) and the parts of   *)
(* FileManager it reads through.  Text is kept as TLA+ strings and taken   *)
(* apart character by character, as the TypeScript does.                   *)
(***************************************************************************)
EXTENDS Integers, Sequences, FiniteSets, TLC

VARIABLES
    outputDir,    \* the project's output directory: whether it exists, filename -> content
    writes,       \* number of changes other requests have made to outputDir
    pc,           \* position of the call under way
    files,        \* parseOutput: the listing returned by listFiles
    contents,     \* parseOutput: the text read for each parsed file, in order
    parsedFiles,  \* parseOutput: the ParsedFile values built so far
    result,       \* parseOutput: the SimulationOutput returned (or the error thrown)
    filename,     \* classifier run: the filename given to detectFileType
    fileType,     \* classifier run: the kind it returned
    content,      \* decoder run: the file text given to the decoders
    mapping,      \* decoder run: a datacenter mapping to be written out and decoded
    badLine,      \* decoder run: a line holding no delimiter, and where it is inserted
    decoded,      \* decoder run: what the decoders returned
    stdout,       \* console run: the transcript
    stderr,       \* console run: the error stream, <<text>>, or Undefined when not passed
    report,       \* console run: what parseTerminalOutput returned
    tree,         \* API: the volume: the set of paths that exist under the base path
    container,    \* API: whether the TokenSim container is running
    inflight      \* API: per connection, the request being handled or last answered

vars == <<outputDir, writes, pc, files, contents, parsedFiles, result,
          filename, fileType, content, mapping, badLine, decoded,
          stdout, stderr, report, tree, container, inflight>>

apiVars == <<tree, container, inflight>>

\* An optional argument is <<value>> when passed and Undefined when not.
Undefined == <<>>

----------------------------------------------------------------------------
(* Strings, as JavaScript's String methods use them.                       *)

\* s.substring(i - 1, j): the characters i..j of s that exist
Sub(s, i, j) ==
    LET a == IF i < 1 THEN 1 ELSE i
        b == IF j > Len(s) THEN Len(s) ELSE j
    IN  IF a > b THEN "" ELSE SubSeq(s, a, b)

Ch(s, i) == Sub(s, i, i)

UpperChars == "ABCDEFGHIJKLMNOPQRSTUVWXYZ"
LowerChars == "abcdefghijklmnopqrstuvwxyz"
DigitChars == "0123456789"

InStr(c, s) == \E i \in 1..Len(s) : Ch(s, i) = c

CharsOf(s) == {Ch(s, i) : i \in 1..Len(s)}
UpperSet == CharsOf(UpperChars)
LowerSet == CharsOf(LowerChars)
DigitSet == CharsOf(DigitChars)
LowerOf == [c \in UpperSet |->
               Ch(LowerChars, CHOOSE i \in 1..Len(UpperChars) : Ch(UpperChars, i) = c)]

IsDigit(c) == c \in DigitSet
IsLetter(c) == c \in UpperSet \/ c \in LowerSet
\* \s of a JavaScript regular expression, and what trim() removes
IsSpace(c) == c \in {" ", "\t", "\n", "\r", "\f"}

LowerCh(c) == IF c \in UpperSet THEN LowerOf[c] ELSE c

RECURSIVE toLowerCase(_)
toLowerCase(s) ==
    IF s = "" THEN "" ELSE LowerCh(Ch(s, 1)) \o toLowerCase(Sub(s, 2, Len(s)))

\* s.includes(sub), sub not empty
includes(s, sub) ==
    \E i \in 1..(Len(s) - Len(sub) + 1) : Sub(s, i, i + Len(sub) - 1) = sub

startsWith(s, pre) == Len(s) >= Len(pre) /\ Sub(s, 1, Len(pre)) = pre

endsWith(s, suf) ==
    Len(s) >= Len(suf) /\ Sub(s, Len(s) - Len(suf) + 1, Len(s)) = suf

\* index of the first non-space character of s at or after i, Len(s)+1 if none
RECURSIVE SkipSpace(_, _)
SkipSpace(s, i) ==
    IF i <= Len(s) /\ IsSpace(Ch(s, i)) THEN SkipSpace(s, i + 1) ELSE i

RECURSIVE SkipSpaceBack(_, _)
SkipSpaceBack(s, i) ==
    IF i >= 1 /\ IsSpace(Ch(s, i)) THEN SkipSpaceBack(s, i - 1) ELSE i

\* s.trim()
trim(s) == Sub(s, SkipSpace(s, 1), SkipSpaceBack(s, Len(s)))

\* s.split(d) for a one-character separator d
\* index of the first d in s at or after i, Len(s)+1 if none
RECURSIVE indexOf(_, _, _)
indexOf(s, d, i) == IF i <= Len(s) /\ Ch(s, i) # d THEN indexOf(s, d, i + 1) ELSE i

RECURSIVE splitFrom(_, _, _)
splitFrom(s, d, i) ==
    LET k == indexOf(s, d, i)
    IN  IF k > Len(s) THEN <<Sub(s, i, Len(s))>>
        ELSE <<Sub(s, i, k - 1)>> \o splitFrom(s, d, k + 1)

split(s, d) == splitFrom(s, d, 1)

\* index of the first white-space character of s at or after i, Len(s)+1 if none
RECURSIVE SkipWord(_, _)
SkipWord(s, i) ==
    IF i <= Len(s) /\ ~IsSpace(Ch(s, i)) THEN SkipWord(s, i + 1) ELSE i

\* s.split(/\s+/).filter(p => p.trim()): the maximal runs of non-space characters
RECURSIVE splitSpaces(_)
splitSpaces(s) ==
    LET b == SkipSpace(s, 1)
        e == SkipWord(s, b)
    IN  IF b > Len(s) THEN <<>>
        ELSE <<Sub(s, b, e - 1)>> \o splitSpaces(Sub(s, e, Len(s)))

\* parts.join(d)
RECURSIVE join(_, _)
join(parts, d) ==
    IF parts = <<>> THEN ""
    ELSE IF Len(parts) = 1 THEN parts[1]
    ELSE parts[1] \o d \o join(Tail(parts), d)

Map(f(_), seq) == [i \in 1..Len(seq) |-> f(seq[i])]

NonBlank(line) == trim(line) # ""

\* content.split('\n').filter(line => line.trim())
lines(text) == SelectSeq(split(text, "\n"), NonBlank)

----------------------------------------------------------------------------
(* JavaScript objects used as maps: a sequence of <<key, value>> pairs in  *)
(* the order Object.keys / Object.entries enumerate them (insertion order; *)
(* the keys used here are never canonical array indices).                  *)

HasKey(obj, k) == \E i \in 1..Len(obj) : obj[i][1] = k

Get(obj, k) == obj[CHOOSE i \in 1..Len(obj) : obj[i][1] = k][2]

\* obj[k] = v
Put(obj, k, v) ==
    IF HasKey(obj, k)
    THEN [i \in 1..Len(obj) |-> IF obj[i][1] = k THEN <<k, v>> ELSE obj[i]]
    ELSE Append(obj, <<k, v>>)

\* Object.assign(target, source)
RECURSIVE assign(_, _)
assign(target, source) ==
    IF source = <<>> THEN target
    ELSE assign(Put(target, source[1][1], source[1][2]), Tail(source))

keys(obj) == [i \in 1..Len(obj) |-> obj[i][1]]

----------------------------------------------------------------------------
(* OutputParser: the classifier.                                           *)

RECURSIVE SkipDigits(_, _)
SkipDigits(s, i) ==
    IF i <= Len(s) /\ IsDigit(Ch(s, i)) THEN SkipDigits(s, i + 1) ELSE i

\* End of a run \d+ starting at i followed by a dot: the index after the dot, 0 if none
DigitsDot(s, i) ==
    LET e == SkipDigits(s, i)
    IN  IF i >= 1 /\ e > i /\ e <= Len(s) /\ Ch(s, e) = "." THEN e + 1 ELSE 0

\* Length of the match of /^\d+\.\d+\.\d+\.\d+/ on s, 0 when it does not match
QuadLen(s) ==
    LET a == DigitsDot(s, 1)
        b == IF a = 0 THEN 0 ELSE DigitsDot(s, a)
        c == IF b = 0 THEN 0 ELSE DigitsDot(s, b)
        e == IF c = 0 THEN 0 ELSE SkipDigits(s, c)
    IN  IF c # 0 /\ e > c THEN e - 1 ELSE 0

detectFileType(name) ==
    LET lower == toLowerCase(name)
    IN  IF includes(lower, "hostname") THEN "hostname"
        ELSE IF includes(lower, "dc") \/ includes(lower, "datacenter") THEN "dc"
        ELSE IF includes(lower, "tokenmap") THEN "tokenmap"
        ELSE IF includes(lower, "emea_token") THEN "emea_token"
        ELSE IF includes(lower, "all_tokens") THEN "all_tokens"
        ELSE IF includes(lower, "ip_tokens") \/ QuadLen(name) > 0 THEN "ip_tokens"
        ELSE IF includes(lower, "token_list") THEN "token_list"
        ELSE IF endsWith(lower, ".json") THEN "json"
        ELSE "unknown"

----------------------------------------------------------------------------
(* OutputParser: the line decoders.                                        *)

\* line.split(':').map(p => p.trim())
colonParts(line) == Map(trim, split(line, ":"))

\* parts.slice(1).join(':')
rest(parts) == join(Tail(parts), ":")

\* hostnamesOf keeping a line that has no colon, as a key without a value
RECURSIVE hostnamesOf_keepsShortLines(_, _)
hostnamesOf_keepsShortLines(ls, acc) ==
    IF ls = <<>> THEN acc
    ELSE LET parts == colonParts(ls[1])
         IN  hostnamesOf_keepsShortLines(Tail(ls),
                 IF Len(parts) >= 1 THEN Put(acc, parts[1], rest(parts)) ELSE acc)

RECURSIVE hostnamesOf(_, _)
hostnamesOf(ls, acc) ==
    IF ls = <<>> THEN acc
    ELSE LET parts == colonParts(ls[1])
         IN  hostnamesOf(Tail(ls),
                 IF Len(parts) >= 2 THEN Put(acc, parts[1], rest(parts)) ELSE acc)

parseHostname(text) ==
    [hostnames |-> hostnamesOf(lines(text), <<>>), format |-> "ip:hostname"]

RECURSIVE datacentersOf(_, _)
datacentersOf(ls, acc) ==
    IF ls = <<>> THEN acc
    ELSE LET parts == colonParts(ls[1])
         IN  datacentersOf(Tail(ls),
                 IF Len(parts) >= 2
                 THEN Put(acc, parts[1], Map(trim, split(rest(parts), ",")))
                 ELSE acc)

parseDatacenter(text) ==
    [datacenters |-> datacentersOf(lines(text), <<>>), format |-> "dc:ip1,ip2,..."]

RECURSIVE mappingsOf(_)
mappingsOf(ls) ==
    IF ls = <<>> THEN <<>>
    ELSE LET parts == splitSpaces(ls[1])
         IN  (IF Len(parts) >= 2
              THEN <<[token |-> parts[1], ip |-> parts[2]]>>
              ELSE <<>>) \o mappingsOf(Tail(ls))

parseTokenmap(text) ==
    [tokenMappings |-> mappingsOf(lines(text)), format |-> "token ip"]

\* the loop shared by parseEmeaToken, parseAllTokens, parseIpTokens and parseTokenList
tokensOf(text) == Map(trim, lines(text))

parseEmeaToken(text) == [tokens |-> tokensOf(text), format |-> "one-per-line"]

parseAllTokens(text) == [tokens |-> tokensOf(text), format |-> "one-per-line"]

parseIpTokens(name, text) ==
    [ip |-> Sub(name, 1, QuadLen(name)),
     tokens |-> tokensOf(text),
     format |-> "one-per-line"]

parseTokenList(text) == [tokens |-> tokensOf(text), format |-> "one-per-line"]

----------------------------------------------------------------------------
(* JSON.parse, as far as parseFile needs it: does the text parse.          *)
(* JsonEnd(s, i) is the index after the JSON value that starts at i (after *)
(* white space), 0 when none does.  Strings carry no escapes, numbers no   *)
(* exponent: the texts the model reads hold neither.                       *)

IsJsonSpace(c) == c \in {" ", "\t", "\n", "\r"}

RECURSIVE SkipJsonSpace(_, _)
SkipJsonSpace(s, i) ==
    IF i <= Len(s) /\ IsJsonSpace(Ch(s, i)) THEN SkipJsonSpace(s, i + 1) ELSE i

Literal(s, i, w) == IF Sub(s, i, i + Len(w) - 1) = w THEN i + Len(w) ELSE 0

RECURSIVE StringEnd(_, _)
StringEnd(s, i) ==
    IF i > Len(s) \/ Ch(s, i) \in {"\\", "\n", "\t", "\r"} THEN 0
    ELSE IF Ch(s, i) = "\"" THEN i + 1
    ELSE StringEnd(s, i + 1)

NumberEnd(s, i) ==
    LET b == IF i <= Len(s) /\ Ch(s, i) = "-" THEN i + 1 ELSE i
        e == SkipDigits(s, b)
        f == IF e <= Len(s) /\ Ch(s, e) = "." THEN SkipDigits(s, e + 1) ELSE e
    IN  IF e = b \/ (e > b + 1 /\ Ch(s, b) = "0") THEN 0
        ELSE IF f = e + 1 /\ e <= Len(s) /\ Ch(s, e) = "." THEN 0
        ELSE f

RECURSIVE JsonEnd(_, _)
RECURSIVE ElementsEnd(_, _)
RECURSIVE MembersEnd(_, _)

JsonEnd(s, i0) ==
    LET i == SkipJsonSpace(s, i0)
        c == IF i <= Len(s) THEN Ch(s, i) ELSE ""
    IN  IF c = "" THEN 0
        ELSE IF c = "\"" THEN StringEnd(s, i + 1)
        ELSE IF c = "t" THEN Literal(s, i, "true")
        ELSE IF c = "f" THEN Literal(s, i, "false")
        ELSE IF c = "n" THEN Literal(s, i, "null")
        ELSE IF c = "[" THEN
            (LET j == SkipJsonSpace(s, i + 1)
             IN  IF j <= Len(s) /\ Ch(s, j) = "]" THEN j + 1 ELSE ElementsEnd(s, i + 1))
        ELSE IF c = "{" THEN
            (LET j == SkipJsonSpace(s, i + 1)
             IN  IF j <= Len(s) /\ Ch(s, j) = "}" THEN j + 1 ELSE MembersEnd(s, i + 1))
        ELSE NumberEnd(s, i)

\* value (, value)* ]
ElementsEnd(s, i) ==
    LET e == JsonEnd(s, i)
        j == IF e = 0 THEN 0 ELSE SkipJsonSpace(s, e)
    IN  IF e = 0 \/ j > Len(s) THEN 0
        ELSE IF Ch(s, j) = "]" THEN j + 1
        ELSE IF Ch(s, j) = "," THEN ElementsEnd(s, j + 1)
        ELSE 0

\* "key" : value (, "key" : value)* }
MembersEnd(s, i) ==
    LET k == SkipJsonSpace(s, i)
        ke == IF k <= Len(s) /\ Ch(s, k) = "\"" THEN StringEnd(s, k + 1) ELSE 0
        c == IF ke = 0 THEN 0 ELSE SkipJsonSpace(s, ke)
        e == IF c = 0 \/ c > Len(s) \/ Ch(s, c) # ":" THEN 0 ELSE JsonEnd(s, c + 1)
        j == IF e = 0 THEN 0 ELSE SkipJsonSpace(s, e)
    IN  IF e = 0 \/ j > Len(s) THEN 0
        ELSE IF Ch(s, j) = "}" THEN j + 1
        ELSE IF Ch(s, j) = "," THEN MembersEnd(s, j + 1)
        ELSE 0

\* JSON.parse(text) does not throw
JsonParses(text) ==
    LET e == JsonEnd(text, 1)
    IN  e # 0 /\ SkipJsonSpace(text, e) = Len(text) + 1

----------------------------------------------------------------------------
(* OutputParser.parseFile                                                  *)

parseFile(name, text) ==
    LET type == detectFileType(name)
        lineCount == Len(split(text, "\n"))
    IN  [filename |-> name,
         type |-> type,
         data |->
            CASE type = "json" ->
                    IF JsonParses(text) THEN [json |-> text] ELSE [raw |-> text]
              [] type = "hostname" -> parseHostname(text)
              [] type = "dc" -> parseDatacenter(text)
              [] type = "tokenmap" -> parseTokenmap(text)
              [] type = "emea_token" -> parseEmeaToken(text)
              [] type = "all_tokens" -> parseAllTokens(text)
              [] type = "ip_tokens" -> parseIpTokens(name, text)
              [] type = "token_list" -> parseTokenList(text)
              [] OTHER -> [raw |-> text],
         metadata |->
            CASE type = "json" ->
                    IF JsonParses(text) THEN [format |-> "json"]
                    ELSE [format |-> "json", parseError |-> "Invalid JSON"]
              [] type = "hostname" ->
                    [format |-> parseHostname(text).format, lineCount |-> lineCount]
              [] type = "dc" ->
                    [format |-> parseDatacenter(text).format, lineCount |-> lineCount]
              [] type = "tokenmap" ->
                    [format |-> parseTokenmap(text).format,
                     tokenCount |-> Len(parseTokenmap(text).tokenMappings)]
              [] type \in {"emea_token", "all_tokens", "token_list"} ->
                    [format |-> "one-per-line", tokenCount |-> Len(tokensOf(text))]
              [] type = "ip_tokens" ->
                    [format |-> "one-per-line",
                     tokenCount |-> Len(tokensOf(text)),
                     ipCount |-> IF parseIpTokens(name, text).ip # "" THEN 1 ELSE 0]
              [] OTHER -> [format |-> "unknown"]]

----------------------------------------------------------------------------
(* OutputParser.buildUnifiedModel                                          *)

RECURSIVE mergeHostnames(_, _)
mergeHostnames(pf, acc) ==
    IF pf = <<>> THEN acc
    ELSE mergeHostnames(Tail(pf),
            IF pf[1].type = "hostname" THEN assign(acc, pf[1].data.hostnames) ELSE acc)

RECURSIVE mergeDatacenters(_, _)
mergeDatacenters(pf, acc) ==
    IF pf = <<>> THEN acc
    ELSE mergeDatacenters(Tail(pf),
            IF pf[1].type = "dc" THEN assign(acc, pf[1].data.datacenters) ELSE acc)

RECURSIVE mergeTokenMappings(_)
mergeTokenMappings(pf) ==
    IF pf = <<>> THEN <<>>
    ELSE (IF pf[1].type = "tokenmap" THEN pf[1].data.tokenMappings ELSE <<>>)
         \o mergeTokenMappings(Tail(pf))

RECURSIVE mergeIpTokens(_, _)
mergeIpTokens(pf, acc) ==
    IF pf = <<>> THEN acc
    ELSE mergeIpTokens(Tail(pf),
            IF pf[1].type = "ip_tokens" /\ pf[1].data.ip # ""
            THEN Put(acc, pf[1].data.ip, pf[1].data.tokens)
            ELSE acc)

RECURSIVE addAll_keepsDuplicates(_, _)
addAll_keepsDuplicates(acc, seq) ==
    IF seq = <<>> THEN acc
    ELSE addAll_keepsDuplicates(Append(acc, seq[1]), Tail(seq))

\* new Set(): adding the members of seq to the insertion-ordered set acc
RECURSIVE addAll(_, _)
addAll(acc, seq) ==
    IF seq = <<>> THEN acc
    ELSE addAll(IF \E i \in 1..Len(acc) : acc[i] = seq[1] THEN acc ELSE Append(acc, seq[1]),
                Tail(seq))

mappingIp(m) == m.ip
mappingToken(m) == m.token

\* the first datacenter, in Object.entries order, whose list includes ip; '' if none
RECURSIVE datacenterOf(_, _)
datacenterOf(dcs, ip) ==
    IF dcs = <<>> THEN ""
    ELSE IF \E i \in 1..Len(dcs[1][2]) : dcs[1][2][i] = ip THEN dcs[1][1]
    ELSE datacenterOf(Tail(dcs), ip)

buildNode_emptyFallsBack(ip, hostnames, datacenters, tokenMappings, ipToTokens) ==
    LET hostname == IF HasKey(hostnames, ip) /\ Get(hostnames, ip) # ""
                    THEN Get(hostnames, ip) ELSE ip
        parts == split(hostname, ":")
        name == parts[1]
        rack == IF Len(parts) >= 2 THEN parts[2] ELSE ""
        tokens == IF HasKey(ipToTokens, ip) /\ Get(ipToTokens, ip) # <<>>
                  THEN Get(ipToTokens, ip)
                  ELSE Map(mappingToken, SelectSeq(tokenMappings, LAMBDA m : m.ip = ip))
        datacenter == datacenterOf(datacenters, ip)
    IN  [ip |-> ip,
         name |-> IF name # "" THEN name ELSE ip,
         hostname |-> IF hostname # "" THEN hostname ELSE ip,
         datacenter |-> IF datacenter # "" THEN datacenter ELSE "unknown",
         rack |-> rack,
         tokens |-> tokens,
         tokenCount |-> Len(tokens)]

buildNode(ip, hostnames, datacenters, tokenMappings, ipToTokens) ==
    LET hostname == IF HasKey(hostnames, ip) /\ Get(hostnames, ip) # ""
                    THEN Get(hostnames, ip) ELSE ip
        parts == split(hostname, ":")
        name == parts[1]
        rack == IF Len(parts) >= 2 THEN parts[2] ELSE ""
        tokens == IF HasKey(ipToTokens, ip) THEN Get(ipToTokens, ip)
                  ELSE Map(mappingToken, SelectSeq(tokenMappings, LAMBDA m : m.ip = ip))
        datacenter == datacenterOf(datacenters, ip)
    IN  [ip |-> ip,
         name |-> IF name # "" THEN name ELSE ip,
         hostname |-> IF hostname # "" THEN hostname ELSE ip,
         datacenter |-> IF datacenter # "" THEN datacenter ELSE "unknown",
         rack |-> rack,
         tokens |-> tokens,
         tokenCount |-> Len(tokens)]

RECURSIVE sumTokenCount_countsNodes(_)
sumTokenCount_countsNodes(nodes) ==
    IF nodes = <<>> THEN 0 ELSE 1 + sumTokenCount_countsNodes(Tail(nodes))

RECURSIVE sumTokenCount(_)
sumTokenCount(nodes) ==
    IF nodes = <<>> THEN 0 ELSE nodes[1].tokenCount + sumTokenCount(Tail(nodes))

buildUnifiedModel(pf) ==
    LET hostnames == mergeHostnames(pf, <<>>)
        datacenters == mergeDatacenters(pf, <<>>)
        tokenMappings == mergeTokenMappings(pf)
        ipToTokens == mergeIpTokens(pf, <<>>)
        ipSet == addAll(addAll(<<>>, Map(mappingIp, tokenMappings)), keys(ipToTokens))
        nodes == [i \in 1..Len(ipSet) |->
                    buildNode(ipSet[i], hostnames, datacenters, tokenMappings, ipToTokens)]
    IN  [nodes |-> nodes,
         datacenters |-> datacenters,
         hostnames |-> hostnames,
         tokenMappings |-> tokenMappings,
         summary |-> [totalNodes |-> Len(nodes),
                      totalTokens |-> sumTokenCount(nodes),
                      totalDatacenters |-> Len(keys(datacenters))]]

----------------------------------------------------------------------------
(* FileManager and OutputParser.parseOutput over one project's output      *)
(* directory, which other requests and the simulator create, fill and     *)
(* remove meanwhile.                                                       *)

\* The characters of file names in the order of their UTF-16 code units
CodeOrder == "-.0123456789ABCDEFGHIJKLMNOPQRSTUVWXYZ_abcdefghijklmnopqrstuvwxyz"

Code(c) == CHOOSE i \in 1..Len(CodeOrder) : Ch(CodeOrder, i) = c

\* a < b as Array.prototype.sort() compares strings
RECURSIVE Before(_, _)
Before(a, b) ==
    IF a = "" THEN b # ""
    ELSE IF b = "" THEN FALSE
    ELSE IF Ch(a, 1) = Ch(b, 1) THEN Before(Sub(a, 2, Len(a)), Sub(b, 2, Len(b)))
    ELSE Code(Ch(a, 1)) < Code(Ch(b, 1))

\* the members of a set of strings, sorted
RECURSIVE sorted(_)
sorted(S) ==
    IF S = {} THEN <<>>
    ELSE LET m == CHOOSE x \in S : \A y \in S \ {x} : Before(x, y)
         IN  <<m>> \o sorted(S \ {m})

\* FileManager.fileExists(getOutputPath(...))
fileExists(dir) == dir.exists

\* the members of a set of strings, in descending order
RECURSIVE sortedDown(_)
sortedDown(S) ==
    IF S = {} THEN <<>>
    ELSE LET m == CHOOSE x \in S : \A y \in S \ {x} : Before(y, x)
         IN  <<m>> \o sortedDown(S \ {m})

listFiles_unsorted(dir) == IF ~dir.exists THEN <<>> ELSE sortedDown(DOMAIN dir.entries)

\* FileManager.listFiles(outputPath)
listFiles(dir) == IF ~dir.exists THEN <<>> ELSE sorted(DOMAIN dir.entries)

MaxWrites == 3

ArtifactNames ==
    {"hostname.txt", "10.0.0.1.txt", "dc.txt", "tokenmap.txt", "report.json",
     "hostname.json", "dc.json"}

ArtifactTexts ==
    {"10.0.0.1=web1:rack2",
     "10.0.0.1:web1:rack2",
     "111,222",
     "111\n222\n",
     "dc1:10.0.0.1, 10.0.0.2",
     "dc2:10.0.0.1\ndc1:10.0.0.1",
     "333 10.0.0.1\n444 10.0.0.2",
     "{\"nodes\": [1, 2]}",
     "{\"nodes\": [1, 2",
     ""}

NoEntries == [n \in {} |-> ""]
NoDir == [exists |-> FALSE, entries |-> NoEntries]
EmptyDir == [exists |-> TRUE, entries |-> NoEntries]

emptyOutput ==
    [parsed |-> [files |-> <<>>,
                 summary |-> [totalFiles |-> 0, txtFiles |-> 0, jsonFiles |-> 0,
                              fileTypes |-> <<>>]],
     data |-> [nodes |-> <<>>,
               datacenters |-> <<>>,
               hostnames |-> <<>>,
               tokenMappings |-> <<>>,
               summary |-> [totalNodes |-> 0, totalTokens |-> 0, totalDatacenters |-> 0]]]

typeOf(f) == f.type
IsTxt(f) == endsWith(f.filename, ".txt")
IsJson(f) == endsWith(f.filename, ".json")

\* the value parseOutput returns once every listed file is parsed
output(listing, pf) ==
    [parsed |-> [files |-> pf,
                 summary |-> [totalFiles |-> Len(listing),
                              txtFiles |-> Len(SelectSeq(pf, IsTxt)),
                              jsonFiles |-> Len(SelectSeq(pf, IsJson)),
                              fileTypes |-> addAll(<<>>, Map(typeOf, pf))]],
     data |-> buildUnifiedModel(pf)]

\* the connections the server handles at a time
Slots == {1, 2}

\* a connection on which no request has arrived yet
Idle ==
    [kind |-> "", authorization |-> Undefined, customerName |-> "", projectId |-> "",
     newCustomerName |-> Undefined, pc |-> "idle", status |-> 0, error |-> "",
     ran |-> FALSE]

\* what the API holds while another kind of run is modelled
NoApi ==
    /\ tree = {} /\ container = FALSE
    /\ inflight = [r \in Slots |-> Idle]

NoRun ==
    /\ filename = "" /\ fileType = ""
    /\ content = "" /\ mapping = <<>> /\ badLine = <<>> /\ decoded = <<>>
    /\ stdout = "" /\ stderr = Undefined /\ report = <<>>

Init ==
    /\ outputDir = NoDir
    /\ writes = 0
    /\ pc = "idle"
    /\ files = <<>>
    /\ contents = <<>>
    /\ parsedFiles = <<>>
    /\ result = <<>>
    /\ NoRun
    /\ NoApi

runVars == <<filename, fileType, content, mapping, badLine, decoded,
            stdout, stderr, report>>
parseVars == <<pc, files, contents, parsedFiles, result>>

\* FileManager.createProject: ensureDir(outputPath)
CreateOutputDir ==
    /\ ~outputDir.exists
    /\ writes < MaxWrites
    /\ outputDir' = EmptyDir
    /\ writes' = writes + 1
    /\ UNCHANGED <<parseVars, runVars, apiVars>>

\* FileManager.deleteProject: remove(projectPath)
RemoveOutputDir ==
    /\ outputDir.exists
    /\ writes < MaxWrites
    /\ outputDir' = NoDir
    /\ writes' = writes + 1
    /\ UNCHANGED <<parseVars, runVars, apiVars>>

\* the simulator writing an artifact into the output directory
WriteArtifact ==
    /\ outputDir.exists
    /\ writes < MaxWrites
    /\ \E n \in ArtifactNames, t \in ArtifactTexts :
         outputDir' = [outputDir EXCEPT !.entries =
                          [m \in DOMAIN outputDir.entries \cup {n} |->
                              IF m = n THEN t ELSE outputDir.entries[m]]]
    /\ writes' = writes + 1
    /\ UNCHANGED <<parseVars, runVars, apiVars>>

\* parseOutput up to its first await: fileExists(outputPath)
ParseCheck ==
    /\ pc = "idle"
    /\ IF fileExists(outputDir)
       THEN pc' = "list" /\ result' = result
       ELSE pc' = "done" /\ result' = emptyOutput
    /\ UNCHANGED <<outputDir, writes, files, contents, parsedFiles, runVars, apiVars>>

\* ParseList with an empty listing reported as an error instead of an empty model
ParseList_throwsOnEmpty ==
    /\ pc = "list"
    /\ files' = listFiles(outputDir)
    /\ IF files' = <<>>
       THEN pc' = "failed" /\ result' = [error |-> "No output files", statusCode |-> 404]
       ELSE pc' = "read" /\ result' = result
    /\ UNCHANGED <<outputDir, writes, contents, parsedFiles, runVars, apiVars>>

\* parseOutput: listFiles(outputPath); with nothing listed the model is built at once
ParseList ==
    /\ pc = "list"
    /\ files' = listFiles(outputDir)
    /\ IF files' = <<>>
       THEN pc' = "done" /\ result' = output(<<>>, <<>>)
       ELSE pc' = "read" /\ result' = result
    /\ UNCHANGED <<outputDir, writes, contents, parsedFiles, runVars, apiVars>>

\* parseOutput: readFile and parseFile of the next listed file; after the last one
\* the model is built and returned.  readFile of a file that is gone throws.
ParseRead ==
    /\ pc = "read"
    /\ LET name == files[Len(parsedFiles) + 1]
       IN  IF name \notin DOMAIN outputDir.entries
           THEN /\ pc' = "failed"
                /\ result' = [error |-> "File not found", statusCode |-> 404]
                /\ UNCHANGED <<contents, parsedFiles>>
           ELSE /\ contents' = Append(contents, outputDir.entries[name])
                /\ parsedFiles' = Append(parsedFiles, parseFile(name, outputDir.entries[name]))
                /\ IF Len(parsedFiles') = Len(files)
                   THEN pc' = "done" /\ result' = output(files, parsedFiles')
                   ELSE pc' = "read" /\ result' = result
    /\ UNCHANGED <<outputDir, writes, files, runVars, apiVars>>

Next ==
    \/ CreateOutputDir
    \/ RemoveOutputDir
    \/ WriteArtifact
    \/ ParseCheck
    \/ ParseList
    \/ ParseRead

Spec == Init /\ [][Next]_vars

----------------------------------------------------------------------------
(* Properties of parseOutput                                               *)

nodeFor(ip) ==
    LET nodes == result.data.nodes
    IN  nodes[CHOOSE i \in 1..Len(nodes) : nodes[i].ip = ip]

hasNode(ip) == \E i \in 1..Len(result.data.nodes) : result.data.nodes[i].ip = ip

\* parseOutput returned after reading exactly these files with these texts
Parsed(names, texts) == pc = "done" /\ files = names /\ contents = texts

\* C1: with a hostname file `10.0.0.1=web1:rack2` and a token file 10.0.0.1.txt
\* holding `111,222`, the node of 10.0.0.1 has hostname web1, rack rack2, tokens
\* 111 and 222 in that order, and tokenCount 2.
C1_HostnameAndTokensJoin ==
    Parsed(<<"10.0.0.1.txt", "hostname.txt">>, <<"111,222", "10.0.0.1=web1:rack2">>)
        => /\ hasNode("10.0.0.1")
           /\ nodeFor("10.0.0.1").hostname = "web1"
           /\ nodeFor("10.0.0.1").rack = "rack2"
           /\ nodeFor("10.0.0.1").tokens = <<"111", "222">>
           /\ nodeFor("10.0.0.1").tokenCount = 2

\* C2: when the output directory is absent or lists no file, parseOutput does not
\* fail and returns no node, no datacenter, no hostname, no token mapping and a
\* summary of zeros.
C2_EmptyProjectGivesEmptyModel ==
    (pc \in {"done", "failed"} /\ files = <<>>)
        => /\ pc = "done"
           /\ result.data.nodes = <<>>
           /\ result.data.datacenters = <<>>
           /\ result.data.hostnames = <<>>
           /\ result.data.tokenMappings = <<>>
           /\ result.data.summary.totalNodes = 0
           /\ result.data.summary.totalTokens = 0
           /\ result.data.summary.totalDatacenters = 0

\* parseOutput returned from an output directory that exists and holds no file
C2_Witness ==
    /\ pc = "done"
    /\ files = <<>>
    /\ outputDir = EmptyDir
    /\ result.parsed.summary.totalFiles = 0

\* C12: a listed file that can no longer be read when its turn comes (a concurrent
\* request removed it after the listing) counts as empty, and parseOutput still
\* returns a parse result and a model instead of failing.
C12_MissingArtifactIsTolerated ==
    pc \in {"done", "failed"}
        => /\ pc = "done"
           /\ DOMAIN result = {"parsed", "data"}
           /\ result.parsed.summary.totalFiles = Len(files)

\* C13: every file whose name ends in .json and whose text is not valid JSON is
\* kept in the parse result with its raw text as data and a parse-error marker in
\* its metadata, and every listed file is in the parse result.
C13_InvalidJsonIsKeptRaw ==
    pc = "done" =>
        /\ Len(result.parsed.files) = Len(files)
        /\ \A i \in 1..Len(files) :
              (endsWith(files[i], ".json") /\ ~JsonParses(contents[i]))
                  => /\ result.parsed.files[i].filename = files[i]
                     /\ result.parsed.files[i].data = [raw |-> contents[i]]
                     /\ "parseError" \in DOMAIN result.parsed.files[i].metadata

\* C19: the nodes of the model are exactly the IPs of the token-map pairs and
\* of the per-IP token files among the parsed files, each IP once; every node
\* has a hostname and a datacenter, its own IP and "unknown" standing in where
\* no hostname entry and no datacenter list names it.
C19_OneNodePerIp ==
    pc = "done"
        => LET pf == result.parsed.files
               nodes == result.data.nodes
               pairIps == UNION {{pf[i].data.tokenMappings[j].ip :
                                     j \in 1..Len(pf[i].data.tokenMappings)} :
                                 i \in {k \in 1..Len(pf) : pf[k].type = "tokenmap"}}
               fileIps == {pf[i].data.ip :
                              i \in {k \in 1..Len(pf) : pf[k].type = "ip_tokens"}} \ {""}
           IN  /\ {nodes[i].ip : i \in 1..Len(nodes)} = pairIps \cup fileIps
               /\ \A i, j \in 1..Len(nodes) : nodes[i].ip = nodes[j].ip => i = j
               /\ \A i \in 1..Len(nodes) :
                      /\ nodes[i].hostname # "" /\ nodes[i].datacenter # ""
                      /\ ~HasKey(result.data.hostnames, nodes[i].ip)
                             => nodes[i].hostname = nodes[i].ip
                      /\ (\A d \in 1..Len(result.data.datacenters) :
                             \A m \in 1..Len(result.data.datacenters[d][2]) :
                                result.data.datacenters[d][2][m] # nodes[i].ip)
                             => nodes[i].datacenter = "unknown"

\* a token map and a per-IP token file name the same IP, the token map names
\* a second one, and no hostname or datacenter file is there: two nodes, both
\* with placeholders
C19_Witness ==
    /\ pc = "done"
    /\ \E i, j \in 1..Len(result.parsed.files) :
           /\ result.parsed.files[i].type = "tokenmap"
           /\ Len(result.parsed.files[i].data.tokenMappings) = 2
           /\ result.parsed.files[j].type = "ip_tokens"
           /\ result.parsed.files[j].data.ip = "10.0.0.1"
    /\ Len(result.data.nodes) = 2
    /\ \A n \in 1..2 :
           /\ result.data.nodes[n].ip \in {"10.0.0.1", "10.0.0.2"}
           /\ result.data.nodes[n].hostname = result.data.nodes[n].ip
           /\ result.data.nodes[n].datacenter = "unknown"

\* the number of tokens held by the first n nodes of the result
RECURSIVE C20_TokensOfFirst(_)
C20_TokensOfFirst(n) ==
    IF n = 0 THEN 0
    ELSE Len(result.data.nodes[n].tokens) + C20_TokensOfFirst(n - 1)

\* C20: in the model returned, totalNodes is the number of nodes, every node's
\* tokenCount is the length of its tokens list, totalTokens is the sum of
\* these, and totalDatacenters is the number of distinct names in the
\* datacenters mapping.
C20_SummaryCounts ==
    pc = "done"
        => LET data == result.data
           IN  /\ data.summary.totalNodes = Len(data.nodes)
               /\ \A i \in 1..Len(data.nodes) :
                      data.nodes[i].tokenCount = Len(data.nodes[i].tokens)
               /\ data.summary.totalTokens = C20_TokensOfFirst(Len(data.nodes))
               /\ data.summary.totalDatacenters =
                      Cardinality({data.datacenters[d][1] :
                                      d \in 1..Len(data.datacenters)})

\* two nodes holding three tokens between them: two from a per-IP token file,
\* one from a token-map pair
C20_Witness ==
    /\ pc = "done"
    /\ Len(result.data.nodes) = 2
    /\ result.data.summary.totalNodes = 2
    /\ {result.data.nodes[i].tokenCount : i \in 1..2} = {1, 2}
    /\ result.data.summary.totalTokens = 3

\* C21: a node whose IP has a per-IP token file holds exactly that file's
\* tokens, also when the file holds none; a node whose IP has no per-IP file
\* holds the tokens of the token-map pairs naming its IP, in pair order.
C21_PerIpFileIsPreferred ==
    pc = "done"
        => LET pf == result.parsed.files
               data == result.data
           IN  \A n \in 1..Len(data.nodes) :
                   LET own == {k \in 1..Len(pf) :
                                  pf[k].type = "ip_tokens"
                                      /\ pf[k].data.ip = data.nodes[n].ip}
                       paired == SelectSeq(data.tokenMappings,
                                           LAMBDA m : m.ip = data.nodes[n].ip)
                   IN  IF own # {}
                       THEN \E k \in own : data.nodes[n].tokens = pf[k].data.tokens
                       ELSE data.nodes[n].tokens =
                                [j \in 1..Len(paired) |-> paired[j].token]

\* a token map pairs a token with 10.0.0.1 and the per-IP file of 10.0.0.1
\* holds no token: the node of 10.0.0.1 has no tokens
C21_Witness ==
    /\ pc = "done"
    /\ \E k \in 1..Len(result.parsed.files) :
           /\ result.parsed.files[k].type = "ip_tokens"
           /\ result.parsed.files[k].data.ip = "10.0.0.1"
           /\ result.parsed.files[k].data.tokens = <<>>
    /\ \E j \in 1..Len(result.data.tokenMappings) :
           result.data.tokenMappings[j].ip = "10.0.0.1"
    /\ \E n \in 1..Len(result.data.nodes) :
           /\ result.data.nodes[n].ip = "10.0.0.1"
           /\ result.data.nodes[n].tokens = <<>>
           /\ result.data.nodes[n].tokenCount = 0

\* the value the parsed file with the greatest filename gives to key, among the
\* files of the given type whose data hold key under field
C22_LastByName(pf, type, field, key) ==
    LET defining == {k \in 1..Len(pf) :
                        pf[k].type = type /\ HasKey(pf[k].data[field], key)}
        last == CHOOSE k \in defining :
                    \A j \in defining \ {k} : Before(pf[j].filename, pf[k].filename)
    IN  Get(pf[last].data[field], key)

\* the keys the parsed files of the given type hold under field
C22_KeysOf(pf, type, field) ==
    UNION {{pf[k].data[field][i][1] : i \in 1..Len(pf[k].data[field])} :
           k \in {j \in 1..Len(pf) : pf[j].type = type}}

\* C22: the hostnames of the model are the IPs the hostname files define, each
\* with the value of the file that is last in ascending filename order among
\* those defining it; the datacenters of the model are the names the
\* datacenter files define, each with the list of the file that is last in
\* ascending filename order among those defining it.
C22_LastFileByNameWins ==
    pc = "done"
        => LET pf == result.parsed.files
               hostnames == result.data.hostnames
               datacenters == result.data.datacenters
           IN  /\ {hostnames[i][1] : i \in 1..Len(hostnames)}
                      = C22_KeysOf(pf, "hostname", "hostnames")
               /\ \A i \in 1..Len(hostnames) :
                      hostnames[i][2]
                          = C22_LastByName(pf, "hostname", "hostnames", hostnames[i][1])
               /\ {datacenters[i][1] : i \in 1..Len(datacenters)}
                      = C22_KeysOf(pf, "dc", "datacenters")
               /\ \A i \in 1..Len(datacenters) :
                      datacenters[i][2]
                          = C22_LastByName(pf, "dc", "datacenters", datacenters[i][1])

\* dc.json and dc.txt both define dc1, with different lists, and the model has
\* the list of dc.txt
C22_Witness ==
    /\ pc = "done"
    /\ files = <<"dc.json", "dc.txt">>
    /\ HasKey(result.parsed.files[1].data.datacenters, "dc1")
    /\ HasKey(result.parsed.files[2].data.datacenters, "dc1")
    /\ Get(result.parsed.files[1].data.datacenters, "dc1")
           # Get(result.parsed.files[2].data.datacenters, "dc1")
    /\ Get(result.data.datacenters, "dc1")
           = Get(result.parsed.files[2].data.datacenters, "dc1")

\* hostname.json and hostname.txt define the same key with different values,
\* and the model has the value of hostname.txt
C22_HostnameWitness ==
    /\ pc = "done"
    /\ files = <<"hostname.json", "hostname.txt">>
    /\ \E key \in C22_KeysOf(result.parsed.files, "hostname", "hostnames") :
           /\ HasKey(result.parsed.files[1].data.hostnames, key)
           /\ HasKey(result.parsed.files[2].data.hostnames, key)
           /\ Get(result.parsed.files[1].data.hostnames, key)
                  # Get(result.parsed.files[2].data.hostnames, key)
           /\ Get(result.data.hostnames, key)
                  = Get(result.parsed.files[2].data.hostnames, key)

\* C23: a node whose IP is listed under two or more datacenter entries has
\* the datacenter whose name comes first in sorted order among them.
C23_FirstDatacenterByName ==
    pc = "done"
        => LET datacenters == result.data.datacenters
               nodes == result.data.nodes
           IN  \A n \in 1..Len(nodes) :
                   LET listing == {datacenters[d][1] :
                                      d \in {e \in 1..Len(datacenters) :
                                                \E m \in 1..Len(datacenters[e][2]) :
                                                    datacenters[e][2][m] = nodes[n].ip}}
                   IN  Cardinality(listing) >= 2
                           => /\ nodes[n].datacenter \in listing
                              /\ \A other \in listing \ {nodes[n].datacenter} :
                                     Before(nodes[n].datacenter, other)

----------------------------------------------------------------------------
(* The classifier on its own: detectFileType applied to one filename.      *)

MaxNameParts == 3

NameParts ==
    {"10.0.0.1", "192.168.1", "_", ".txt", ".json", "hostname", "DC", "tokenmap",
     "emea_token", "ip_tokens", "token_list", "node"}

\* the concatenations of n name parts
RECURSIVE NamesOf(_)
NamesOf(n) ==
    IF n = 0 THEN {""} ELSE {p \o r : p \in NameParts, r \in NamesOf(n - 1)}

Filenames == UNION {NamesOf(n) : n \in 1..MaxNameParts}

\* what the parse run holds while another kind of run is modelled
NoParse ==
    /\ outputDir = NoDir /\ writes = 0
    /\ files = <<>> /\ contents = <<>> /\ parsedFiles = <<>> /\ result = <<>>

\* the texts of the classified file
ClassifiedTexts == {"", "111\n222\n"}

InitClassify ==
    /\ NoParse
    /\ NoApi
    /\ pc = "classify"
    /\ filename \in Filenames
    /\ fileType = ""
    /\ content \in ClassifiedTexts
    /\ mapping = <<>> /\ badLine = <<>> /\ decoded = <<>>
    /\ stdout = "" /\ stderr = Undefined /\ report = <<>>

\* parseFile on one file: the kind detectFileType gives and the ParsedFile built
Classify ==
    /\ pc = "classify"
    /\ fileType' = detectFileType(filename)
    /\ decoded' = parseFile(filename, content)
    /\ pc' = "done"
    /\ UNCHANGED <<outputDir, writes, files, contents, parsedFiles, result, filename,
                   content, mapping, badLine, stdout, stderr, report, apiVars>>

NextClassify == Classify

SpecClassify == InitClassify /\ [][NextClassify]_vars

\* ^\d+\.\d+\.\d+\.\d+(\.txt)?$  or  ^\d+\.\d+\.\d+\.\d+_
IsPerIpName(name) ==
    LET n == QuadLen(name)
        tail == Sub(name, n + 1, Len(name))
    IN  n > 0 /\ (tail = "" \/ tail = ".txt" \/ startsWith(tail, "_"))

\* C3: a filename that is a dotted quad, a dotted quad and .txt, or a dotted quad,
\* an underscore and any suffix is classified as a per-IP token list, whatever
\* the suffix contains.
C3_DottedQuadIsIpTokens ==
    (pc = "done" /\ IsPerIpName(filename)) => fileType = "ip_tokens"

\* the name holds none of the substrings the classifier looks for, does not begin
\* with a dotted quad and does not end in .json
MatchesNoRule(name) ==
    /\ \A word \in {"hostname", "dc", "datacenter", "tokenmap", "emea_token",
                     "all_tokens", "ip_tokens", "token_list"} :
            ~includes(toLowerCase(name), word)
    /\ QuadLen(name) = 0
    /\ ~endsWith(toLowerCase(name), ".json")

\* C14: a filename that matches none of the classifier's rules is classified as a
\* generic token list and decoded by the token-list decoder: the non-blank lines
\* of its text become its tokens.
C14_UnmatchedNameIsTokenList ==
    (pc = "done" /\ MatchesNoRule(filename))
        => /\ fileType = "token_list"
           /\ decoded.type = "token_list"
           /\ "tokens" \in DOMAIN decoded.data
           /\ decoded.data.tokens = tokensOf(content)

\* C18: a filename that holds both emea_token and tokenmap, and none of the
\* words of the hostname and datacenter rules, is classified as the EMEA token
\* kind: the EMEA rule is taken before the token-map rule.
C18_EmeaBeforeTokenmap ==
    (/\ pc = "done"
     /\ includes(toLowerCase(filename), "emea_token")
     /\ includes(toLowerCase(filename), "tokenmap")
     /\ \A word \in {"hostname", "dc", "datacenter"} :
            ~includes(toLowerCase(filename), word))
        => fileType = "emea_token"

----------------------------------------------------------------------------
(* The decoders on their own: parseHostname, parseDatacenter and           *)
(* parseTokenmap applied to one text, and to the same text with one more   *)
(* line put in; parseDatacenter applied to a mapping written out as lines. *)

MaxLines == 2
MaxDatacenters == 2
MaxIps == 2

DecoderLines ==
    {"10.0.0.1:web1:rack2", "10.0.0.1 : web2", "dc1:10.0.0.1,10.0.0.2",
     "111 10.0.0.1", "222\t10.0.0.2 x", "111=10.0.0.1", "222=10.0.0.2", "", "  "}

\* lines to put in: without a colon, or without a second word, or without either
ExtraLines == {"garbage", "10.0.0.1=web1", "web1 rack2", "dc9:10.0.0.9", " "}

DcNames == {"dc1", "dc2"}
Ips == {"10.0.0.1", "10.0.0.2"}

\* the sequences over S of length n
RECURSIVE SeqsOf(_, _)
SeqsOf(S, n) ==
    IF n = 0 THEN {<<>>} ELSE {<<x>> \o r : x \in S, r \in SeqsOf(S, n - 1)}

SeqsUpTo(S, n) == UNION {SeqsOf(S, k) : k \in 0..n}

Texts == {join(ls, "\n") : ls \in UNION {SeqsOf(DecoderLines, k) : k \in 1..MaxLines}}

\* the member lists of the mappings written out: at least one IP each
IpLists == UNION {SeqsOf(Ips, k) : k \in 1..MaxIps}

\* {dc: [ip, ...]} with distinct datacenter names, as <<name, list>> pairs
Mappings ==
    {m \in SeqsUpTo(DcNames \X IpLists, MaxDatacenters) :
        \A i, j \in 1..Len(m) : i # j => m[i][1] # m[j][1]}

\* one `dc=ip1,ip2` line per datacenter
encodeLine(entry) == entry[1] \o "=" \o join(entry[2], ",")
encode(m) == join(Map(encodeLine, m), "\n")

\* text with the line extra put in after its first `at` lines
insertLine(text, extra, at) ==
    LET ls == split(text, "\n")
    IN  join(SubSeq(ls, 1, at) \o <<extra>> \o SubSeq(ls, at + 1, Len(ls)), "\n")

decodeAll(text) ==
    [hostname |-> parseHostname(text).hostnames,
     dc |-> parseDatacenter(text).datacenters,
     tokenmap |-> parseTokenmap(text).tokenMappings]

InitDecode ==
    /\ NoParse
    /\ NoApi
    /\ filename = "" /\ fileType = ""
    /\ stdout = "" /\ stderr = Undefined /\ report = <<>>
    /\ decoded = <<>>
    /\ \/ /\ pc = "decode"
          /\ content \in Texts
          /\ \E extra \in ExtraLines, at \in 0..MaxLines :
                /\ at <= Len(split(content, "\n"))
                /\ badLine = [text |-> extra, at |-> at]
          /\ mapping = <<>>
       \/ /\ pc = "encode"
          /\ mapping \in Mappings
          /\ content = ""
          /\ badLine = <<>>

\* the three decoders on content, and on content with badLine put in
Decode ==
    /\ pc = "decode"
    /\ decoded' = [plain |-> decodeAll(content),
                   withExtra |-> decodeAll(insertLine(content, badLine.text, badLine.at))]
    /\ pc' = "decoded"
    /\ UNCHANGED <<outputDir, writes, files, contents, parsedFiles, result, filename,
                   fileType, content, mapping, badLine, stdout, stderr, report,
                   apiVars>>

\* mapping written out as `dc=ip1,ip2` lines and read back by parseDatacenter
RoundTrip ==
    /\ pc = "encode"
    /\ content' = encode(mapping)
    /\ decoded' = parseDatacenter(content').datacenters
    /\ pc' = "roundtrip"
    /\ UNCHANGED <<outputDir, writes, files, contents, parsedFiles, result, filename,
                   fileType, mapping, badLine, stdout, stderr, report, apiVars>>

NextDecode == Decode \/ RoundTrip

SpecDecode == InitDecode /\ [][NextDecode]_vars

\* a `token=ip` line: a token of digits, an equals sign, a dotted quad
IsTokenEqualsIp(line) ==
    LET e == SkipDigits(line, 1)
        ip == Sub(line, e + 1, Len(line))
    IN  e > 1 /\ e <= Len(line) /\ Ch(line, e) = "="
        /\ QuadLen(ip) = Len(ip) /\ ip # ""

\* C4: for a token-map text made only of valid `token=ip` lines and blank lines,
\* the decoder returns as many pairs as the text has non-blank lines.
C4_PairPerTokenEqualsIpLine ==
    (pc = "decoded"
        /\ \A i \in 1..Len(split(content, "\n")) :
              LET l == split(content, "\n")[i] IN IsTokenEqualsIp(l) \/ ~NonBlank(l))
        => Len(decoded.plain.tokenmap) = Len(lines(content))

\* C5: a mapping {dc: [ip, ...]} written as one `dc=ip1,ip2` line per datacenter
\* and decoded by the datacenter decoder comes back unchanged: the same names,
\* the same lists, the same order.
C5_DatacenterRoundTrip ==
    pc = "roundtrip" => decoded = mapping

NoColon(line) == ~InStr(":", line)

\* no white space between two words of the line
NoInnerSpace(line) == \A i \in 1..Len(trim(line)) : ~IsSpace(Ch(trim(line), i))

\* C7: a line without the decoder's delimiter (a colon for the hostname and
\* datacenter decoders, white space between two words for the token-map decoder)
\* is dropped: the decoder returns, and returns what it returns for the text
\* without that line.
C7_LineWithoutDelimiterIsDropped ==
    pc = "decoded" =>
        /\ NoColon(badLine.text) =>
              /\ decoded.withExtra.hostname = decoded.plain.hostname
              /\ decoded.withExtra.dc = decoded.plain.dc
        /\ NoInnerSpace(badLine.text) =>
              decoded.withExtra.tokenmap = decoded.plain.tokenmap

\* a line without colon and without a second word, put between a hostname line
\* and a token-map line that are both decoded
C7_Witness ==
    /\ pc = "decoded"
    /\ content = "10.0.0.1:web1:rack2\n111 10.0.0.1"
    /\ badLine = [text |-> "garbage", at |-> 1]
    /\ decoded.withExtra.hostname = <<<<"10.0.0.1", "web1:rack2">>>>
    /\ decoded.withExtra.tokenmap = <<[token |-> "111", ip |-> "10.0.0.1"]>>

----------------------------------------------------------------------------
(* OutputParser.parseTerminalOutput                                        *)

\* parseInt(s, 10) of a run of digits
RECURSIVE parseInt(_)
parseInt(s) ==
    IF s = "" THEN 0
    ELSE 10 * parseInt(Sub(s, 1, Len(s) - 1))
         + (CHOOSE d \in 0..9 : Ch(DigitChars, d + 1) = Ch(s, Len(s)))

RECURSIVE dropTrailingZeros(_)
dropTrailingZeros(s) ==
    IF s # "" /\ Ch(s, Len(s)) = "0" THEN dropTrailingZeros(Sub(s, 1, Len(s) - 1))
    ELSE s

\* parseFloat of sign? digits . digits: the number, as units, the fraction digits
\* that count, and the sign (3.20 and 3.2 are one number, 03.5 and 3.5 too)
parseFloat(sign, int, frac) ==
    LET units == parseInt(int)
        f == dropTrailingZeros(frac)
    IN  [units |-> units, frac |-> f, negative |-> sign = "-" /\ (units # 0 \/ f # "")]

\* position of the first match of the lower-case text pat in s at or after i,
\* ignoring case; 0 when there is none
FirstAt(s, pat, i) ==
    LET hits == {k \in i..(Len(s) - Len(pat) + 1) :
                    /\ LowerCh(Ch(s, k)) = Ch(pat, 1)
                    /\ toLowerCase(Sub(s, k, k + Len(pat) - 1)) = pat}
    IN  IF hits = {} THEN 0 ELSE CHOOSE k \in hits : \A j \in hits : k <= j

\* index after the last character of the line that holds position i
RECURSIVE LineEnd(_, _)
LineEnd(s, i) == IF i <= Len(s) /\ Ch(s, i) # "\n" THEN LineEnd(s, i + 1) ELSE i

\* Start of the group ([^\n]+) after \s* that begins at i: the first character that
\* is no white space, or, when the text ends in white space, the last of it that
\* is no newline (the \s* gives it back); 0 when there is none
RECURSIVE GiveBack(_, _, _)
GiveBack(s, i, k) ==
    IF k < i THEN 0 ELSE IF Ch(s, k) # "\n" THEN k ELSE GiveBack(s, i, k - 1)

RestStart(s, i) ==
    LET q == SkipSpace(s, i) IN IF q <= Len(s) THEN q ELSE GiveBack(s, i, Len(s))

\* s.match(/<label>\s*([^\n]+)/i): Undefined, or <<the group>>
RECURSIVE afterLabel(_, _, _)
afterLabel(s, label, from) ==
    LET p == FirstAt(s, label, from)
        b == IF p = 0 THEN 0 ELSE RestStart(s, p + Len(label))
    IN  IF p = 0 THEN Undefined
        ELSE IF b # 0 THEN <<Sub(s, b, LineEnd(s, b) - 1)>>
        ELSE afterLabel(s, label, p + 1)

\* stdout.match(/Cumulative mode:\s*(true|false)/i): Undefined, or <<the flag>>
RECURSIVE cumulativeMode(_, _)
cumulativeMode(s, from) ==
    LET p == FirstAt(s, "cumulative mode:", from)
        q == IF p = 0 THEN 0 ELSE SkipSpace(s, p + 16)
    IN  IF p = 0 THEN Undefined
        ELSE IF toLowerCase(Sub(s, q, q + 3)) = "true" THEN <<TRUE>>
        ELSE IF toLowerCase(Sub(s, q, q + 4)) = "false" THEN <<FALSE>>
        ELSE cumulativeMode(s, p + 1)

IsErrorText(line) ==
    /\ trim(line) # ""
    /\ LET low == toLowerCase(line)
       IN  includes(low, "error") \/ includes(low, "failed") \/ includes(low, "exception")

\* IsStdoutError taking the word anywhere in the line, as the stderr filter does
IsStdoutError_anywhere(line) ==
    trim(line) # "" /\ includes(toLowerCase(line), "error")

\* line.trim() && line.match(/^ERROR\s+/i)
IsStdoutError(line) ==
    /\ trim(line) # ""
    /\ toLowerCase(Sub(line, 1, 5)) = "error"
    /\ Len(line) >= 6 /\ IsSpace(Ch(line, 6))

IsWarning(line) ==
    /\ trim(line) # ""
    /\ includes(toLowerCase(line), "warning")
    /\ ~includes(toLowerCase(line), "no warnings")

\* stdout.split(/\n(?=Cumulative mode:|Data Center:)/i)
IsAnchor(s, i) ==
    \/ toLowerCase(Sub(s, i, i + 15)) = "cumulative mode:"
    \/ toLowerCase(Sub(s, i, i + 11)) = "data center:"

\* index of the first newline of s at or after i that an anchor follows, Len(s)+1 if none
RECURSIVE nextCut(_, _)
nextCut(s, i) ==
    LET k == indexOf(s, "\n", i)
    IN  IF k > Len(s) \/ IsAnchor(s, k + 1) THEN k ELSE nextCut(s, k + 1)

RECURSIVE sectionsFrom(_, _)
sectionsFrom(s, i) ==
    LET k == nextCut(s, i)
    IN  IF k > Len(s) THEN <<Sub(s, i, Len(s))>>
        ELSE <<Sub(s, i, k - 1)>> \o sectionsFrom(s, k + 1)

sectionsOf(s) == sectionsFrom(s, 1)

IsHostChar(c) == IsLetter(c) \/ IsDigit(c) \/ c \in {".", "_", "-"}

\* index of the first character of s at or after i that is neither digit nor dot
RECURSIVE SkipDigitsDots(_, _)
SkipDigitsDots(s, i) ==
    IF i <= Len(s) /\ (IsDigit(Ch(s, i)) \/ Ch(s, i) = ".") THEN SkipDigitsDots(s, i + 1)
    ELSE i

\* the whole word matches ([\d.]+(?:_[^\s]+)?|[a-zA-Z0-9._-]+)
IsHost(word) ==
    /\ word # ""
    /\ \/ \A i \in 1..Len(word) : IsHostChar(Ch(word, i))
       \/ LET k == SkipDigitsDots(word, 1)
          IN  k > 1 /\ k < Len(word) /\ Ch(word, k) = "_"

\* \d+\.\d+ at i: <<index of the dot, index after the match>>, <<0, 0>> when no match
decimalAt(s, i) ==
    LET d == SkipDigits(s, i)
        e == IF d <= Len(s) /\ Ch(s, d) = "." THEN SkipDigits(s, d + 1) ELSE 0
    IN  IF i >= 1 /\ d > i /\ e > d + 1 THEN <<d, e>> ELSE <<0, 0>>

\* deviationAt with a pattern that takes no sign: \((\d+\.\d+)%\)
deviationAt_noSign(s, i) ==
    LET dec == decimalAt(s, i + 1)
    IN  IF /\ i <= Len(s) /\ Ch(s, i) = "("
           /\ dec[1] # 0
           /\ Sub(s, dec[2], dec[2] + 1) = "%)"
        THEN <<parseFloat("", Sub(s, i + 1, dec[1] - 1),
                          Sub(s, dec[1] + 1, dec[2] - 1))>>
        ELSE Undefined

\* (?:\(([+-]\d+\.\d+)%\))? at i: Undefined, or <<the number>>
deviationAt(s, i) ==
    LET dec == decimalAt(s, i + 2)
    IN  IF /\ i + 1 <= Len(s) /\ Ch(s, i) = "(" /\ Ch(s, i + 1) \in {"+", "-"}
           /\ dec[1] # 0
           /\ Sub(s, dec[2], dec[2] + 1) = "%)"
        THEN <<parseFloat(Ch(s, i + 1), Sub(s, i + 2, dec[1] - 1),
                          Sub(s, dec[1] + 1, dec[2] - 1))>>
        ELSE Undefined

\* \s+ and then \d+\.\d+ after position e, as decimalAt gives it; <<0, 0>> when
\* e is 0 or no white space stands at e
spacedDecimalAt(s, e) ==
    IF e >= 1 /\ SkipSpace(s, e) > e THEN decimalAt(s, SkipSpace(s, e)) ELSE <<0, 0>>

\* \s+ and then \d+ after the decimal m: <<first digit, index after the last>>
spacedDigitsAfter(s, m) ==
    LET t == IF m[1] = 0 THEN 0 ELSE SkipSpace(s, m[2])
    IN  IF t > m[2] /\ SkipDigits(s, t) > t THEN <<t, SkipDigits(s, t)>> ELSE <<0, 0>>

\* the decimal m of s, which begins at i, as a number
decimalOf(s, i, m) == parseFloat("", Sub(s, i, m[1] - 1), Sub(s, m[1] + 1, m[2] - 1))

\* line.match(/^(\*?)(host)\s+(\d+\.\d+)\s+(\d+)\s+(\d+\.\d+)\s*(?:\(([+-]\d+\.\d+)%\))?/)
\* and the HostRow built from the groups: Undefined, or <<the row>>
hostRow(line) ==
    LET b == IF Len(line) >= 1 /\ Ch(line, 1) = "*" THEN 2 ELSE 1
        e == SkipWord(line, b)
        own == spacedDecimalAt(line, e)
        tok == spacedDigitsAfter(line, own)
        avg == spacedDecimalAt(line, tok[2])
    IN  IF IsHost(Sub(line, b, e - 1)) /\ avg[1] # 0
        THEN <<[host |-> Sub(line, b, e - 1),
                isNew |-> b = 2,
                hostDataOwnershipRawTB |-> decimalOf(line, SkipSpace(line, e), own),
                numberOfTokens |-> parseInt(Sub(line, tok[1], tok[2] - 1)),
                averageDataOwnershipPerVNodeRawTB |-> decimalOf(line, SkipSpace(line, tok[2]), avg),
                deviationPercent |-> deviationAt(line, SkipSpace(line, avg[2]))]>>
        ELSE Undefined

IsTableHeader(line) ==
    includes(line, "Host") /\ includes(line, "Host Data Ownership")
        /\ includes(line, "Number of Tokens")

IsTableEnd(line) ==
    line = "" \/ includes(line, "Highest average") \/ includes(line, "Lowest average")

\* hostsOf whose table, once begun, never ends
RECURSIVE hostsOf_neverEnds(_, _)
hostsOf_neverEnds(ls, inTable) ==
    IF ls = <<>> THEN <<>>
    ELSE LET line == trim(ls[1])
         IN  IF IsTableHeader(line) THEN hostsOf_neverEnds(Tail(ls), TRUE)
             ELSE (IF inTable THEN hostRow(line) ELSE <<>>)
                  \o hostsOf_neverEnds(Tail(ls), inTable)

\* the loop over the lines of a section: the rows collected, inTable being the mode
RECURSIVE hostsOf(_, _)
hostsOf(ls, inTable) ==
    IF ls = <<>> THEN <<>>
    ELSE LET line == trim(ls[1])
         IN  IF IsTableHeader(line) THEN hostsOf(Tail(ls), TRUE)
             ELSE (IF inTable THEN hostRow(line) ELSE <<>>)
                  \o hostsOf(Tail(ls), inTable /\ ~IsTableEnd(line))

\* parseFloat of a run of digits and dots: the digits before the first dot and
\* those after it, up to a second dot; NaN when there is no digit at all
NaN == [units |-> 0, frac |-> "NaN", negative |-> FALSE]

parseFloatText(text) ==
    LET d == SkipDigits(text, 1)
        e == IF d <= Len(text) THEN SkipDigits(text, d + 1) ELSE d
    IN  IF d = 1 /\ e <= d + 1 THEN NaN
        ELSE parseFloat("", Sub(text, 1, d - 1), Sub(text, d + 1, e - 1))

\* ([\d.]+) at i: the index after the group, 0 when it is empty
numberAt(s, i) == IF i >= 1 /\ SkipDigitsDots(s, i) > i THEN SkipDigitsDots(s, i) ELSE 0

\* index after the text word at i, ignoring case; 0 when it is not there
wordAt(s, i, word) ==
    IF i >= 1 /\ toLowerCase(Sub(s, i, i + Len(word) - 1)) = word THEN i + Len(word) ELSE 0

\* \s+ at i: the index after it, 0 when there is no white space at i
spacesAt(s, i) == IF i >= 1 /\ SkipSpace(s, i) > i THEN SkipSpace(s, i) ELSE 0

\* \(([^)]+)\) at i: the index of the closing parenthesis, 0 when there is no match
RECURSIVE SkipToParen(_, _)
SkipToParen(s, i) == IF i <= Len(s) /\ Ch(s, i) # ")" THEN SkipToParen(s, i + 1) ELSE i

parenAt(s, i) ==
    LET c == SkipToParen(s, i + 1)
    IN  IF i >= 1 /\ i <= Len(s) /\ Ch(s, i) = "(" /\ c > i + 1 /\ c <= Len(s) THEN c ELSE 0

\* \s* at n characters after position p: the index after it, 0 when p is 0 (what
\* comes before did not match)
afterAt(s, p, n) == IF p = 0 THEN 0 ELSE SkipSpace(s, p + n)

\* /<label>\s*([\d.]+)\s+TB\s+\(([^)]+)\)/i: Undefined, or <<[value, host]>>
RECURSIVE averageOf(_, _, _)
averageOf(s, label, from) ==
    LET p == FirstAt(s, label, from)
        b == afterAt(s, p, Len(label))
        e == numberAt(s, b)
        o == spacesAt(s, wordAt(s, spacesAt(s, e), "tb"))
        c == parenAt(s, o)
    IN  IF p = 0 THEN Undefined
        ELSE IF c # 0
        THEN <<[value |-> parseFloatText(Sub(s, b, e - 1)),
                host |-> trim(Sub(s, o + 1, c - 1))]>>
        ELSE averageOf(s, label, p + 1)

\* /Data center average data ownership per vNode:\s*([\d.]+)\s+TB/i
RECURSIVE dataCenterAverage(_, _)
dataCenterAverage(s, from) ==
    LET label == "data center average data ownership per vnode:"
        p == FirstAt(s, label, from)
        b == afterAt(s, p, Len(label))
        e == numberAt(s, b)
    IN  IF p = 0 THEN Undefined
        ELSE IF wordAt(s, spacesAt(s, e), "tb") # 0
        THEN <<parseFloatText(Sub(s, b, e - 1))>>
        ELSE dataCenterAverage(s, p + 1)

\* /Number of hosts deviating from data center average by more than\s+([\d.]+)%:
\*  \s*(\d+)\s*\(([^)]+)\)/i: Undefined, or <<[count, hosts]>>
\* the pattern after its label, which ends before i: Undefined, or <<[count, hosts]>>
deviatingAt(s, i) ==
    LET e == numberAt(s, spacesAt(s, i))
        n == afterAt(s, wordAt(s, e, "%:"), 0)
        ne == IF n = 0 THEN 0 ELSE SkipDigits(s, n)
        o == IF ne > n THEN SkipSpace(s, ne) ELSE 0
        c == parenAt(s, o)
    IN  IF c = 0 THEN Undefined
        ELSE <<[count |-> parseInt(Sub(s, n, ne - 1)),
                hosts |-> Map(trim, split(Sub(s, o + 1, c - 1), ","))]>>

RECURSIVE deviating(_, _)
deviating(s, from) ==
    LET label == "number of hosts deviating from data center average by more than"
        p == FirstAt(s, label, from)
        m == deviatingAt(s, p + Len(label))
    IN  IF p = 0 THEN Undefined
        ELSE IF m # Undefined THEN m
        ELSE deviating(s, p + 1)

\* /<label>\s*([\d.]+)%/i or, with spaces required, /<label>\s+([\d.]+)%/i:
\* Undefined, or <<the digits and dots>>
RECURSIVE percentAfter(_, _, _, _)
percentAfter(s, label, needSpace, from) ==
    LET p == FirstAt(s, label, from)
        b == afterAt(s, p, Len(label))
        e == IF needSpace /\ b = p + Len(label) THEN 0 ELSE numberAt(s, b)
    IN  IF p = 0 THEN Undefined
        ELSE IF wordAt(s, e, "%") # 0 THEN <<Sub(s, b, e - 1)>>
        ELSE percentAfter(s, label, needSpace, p + 1)

\* /With\s+([^\n]+?)\s+storage policy,([^\n]+)/i with "with" at p: the starts and ends
\* <<a, e>> the first group can take
descriptionGroups(s, p) ==
    {g \in (p + 5..SkipSpace(s, p + 4)) \X (p + 5..Len(s)) :
        /\ g[1] <= g[2]
        /\ \A k \in g[1]..g[2] : Ch(s, k) # "\n"
        /\ LET t == spacesAt(s, g[2] + 1)
               r == wordAt(s, t, "storage policy,")
           IN  r # 0 /\ r <= Len(s) /\ Ch(s, r) # "\n"}

\* Undefined, or <<(group 1 + ',' + group 2).trim()>>
RECURSIVE policyDescription(_, _)
policyDescription(s, from) ==
    LET p == FirstAt(s, "with", from)
        G == descriptionGroups(s, p)
        \* \s+ takes all it can, the lazy group as little as it can
        g == CHOOSE x \in G : \A y \in G : x[1] > y[1] \/ (x[1] = y[1] /\ x[2] <= y[2])
        r == wordAt(s, spacesAt(s, g[2] + 1), "storage policy,")
    IN  IF p = 0 THEN Undefined
        ELSE IF spacesAt(s, p + 4) # 0 /\ G # {}
        THEN <<trim(Sub(s, g[1], g[2]) \o "," \o Sub(s, r, LineEnd(s, r) - 1))>>
        ELSE policyDescription(s, p + 1)

\* summaryOf that never raises the imbalance flag
summaryOf_flagNeverSet(highest, lowest, average, deviatingMatch, maxDevMatch, imbalanceMatch) ==
    [highestAverage |-> highest,
     lowestAverage |-> lowest,
     dataCenterAverage |-> average,
     hostsDeviating |->
        IF deviatingMatch = Undefined THEN Undefined ELSE <<deviatingMatch[1].count>>,
     deviatingHosts |->
        IF deviatingMatch = Undefined THEN Undefined ELSE <<deviatingMatch[1].hosts>>,
     maxDeviationDegree |->
        IF maxDevMatch = Undefined THEN Undefined ELSE <<parseFloatText(maxDevMatch[1])>>,
     hasImbalance |-> FALSE,
     imbalanceMessage |->
        IF imbalanceMatch = Undefined THEN Undefined
        ELSE <<"Data imbalance of greater than " \o imbalanceMatch[1] \o "%">>]

\* the summary of a section from what its patterns matched
summaryOf(highest, lowest, average, deviatingMatch, maxDevMatch, imbalanceMatch) ==
    [highestAverage |-> highest,
     lowestAverage |-> lowest,
     dataCenterAverage |-> average,
     hostsDeviating |->
        IF deviatingMatch = Undefined THEN Undefined ELSE <<deviatingMatch[1].count>>,
     deviatingHosts |->
        IF deviatingMatch = Undefined THEN Undefined ELSE <<deviatingMatch[1].hosts>>,
     maxDeviationDegree |->
        IF maxDevMatch = Undefined THEN Undefined ELSE <<parseFloatText(maxDevMatch[1])>>,
     hasImbalance |-> imbalanceMatch # Undefined,
     imbalanceMessage |->
        IF imbalanceMatch = Undefined THEN Undefined
        ELSE <<"Data imbalance of greater than " \o imbalanceMatch[1] \o "%">>]

\* the storage policy of a section: Undefined, or <<the trimmed name>>
storagePolicyOf(policyMatch) ==
    IF policyMatch = Undefined THEN Undefined ELSE <<trim(policyMatch[1])>>

\* the datacenter record built from one section whose name matched as dcMatch
dataCenterOf(section, dcMatch) ==
    IF dcMatch = Undefined THEN Undefined
    ELSE <<[name |-> trim(dcMatch[1]),
            storagePolicy |-> storagePolicyOf(afterLabel(section, "storage policy:", 1)),
            policyDescription |-> policyDescription(section, 1),
            hosts |-> hostsOf(split(section, "\n"), FALSE),
            summary |->
                summaryOf(
                    averageOf(section,
                        "highest average data ownership per vnode on a host:", 1),
                    averageOf(section,
                        "lowest average data ownership per vnode on a host:", 1),
                    dataCenterAverage(section, 1),
                    deviating(section, 1),
                    percentAfter(section, "max deviation degree:", FALSE, 1),
                    percentAfter(section,
                        "the simulation projects a data imbalance of greater than",
                        TRUE, 1))]>>

\* sectionOf building a record for a section that has no 'Data Center:' too
sectionOf_withoutAnchor(section) ==
    LET dcMatch == afterLabel(section, "data center:", 1)
    IN  dataCenterOf(section, IF dcMatch = Undefined THEN <<"">> ELSE dcMatch)

\* the datacenter record built from one section; Undefined without 'Data Center:'
sectionOf(section) == dataCenterOf(section, afterLabel(section, "data center:", 1))

\* pushed keeping a datacenter that has no host row
pushed_withoutHosts(dc) == dc

\* if (dc.hosts.length > 0) dataCenters.push(dc)
pushed(dc) == IF dc # Undefined /\ dc[1].hosts # <<>> THEN dc ELSE <<>>

\* sections.forEach: the records of the sections that have one and hold a host row
RECURSIVE dataCentersOf(_)
dataCentersOf(sections) ==
    IF sections = <<>> THEN <<>>
    ELSE pushed(sectionOf(sections[1])) \o dataCentersOf(Tail(sections))

\* `!stderr`: the argument is not passed or is the empty string
falsy(err) == err = Undefined \/ err[1] = ""

\* the success flag computed from the structured errors instead of from stderr
success_fromErrorLines(out, err) ==
    /\ falsy(err) \/ SelectSeq(split(err[1], "\n"), IsErrorText) = <<>>
    /\ SelectSeq(split(out, "\n"), IsStdoutError) = <<>>

\* !stderr || stderr.trim().length === 0
success(out, err) == falsy(err) \/ Len(trim(err[1])) = 0

parseTerminalOutput(out, err) ==
    LET errorLines == SelectSeq(split(err[1], "\n"), IsErrorText)
        stdoutErrors == SelectSeq(split(out, "\n"), IsStdoutError)
        warningLines == SelectSeq(split(out, "\n"), IsWarning)
        fromStderr == IF falsy(err) THEN Undefined ELSE <<errorLines>>
    IN  [success |-> success(out, err),
         output |->
            [raw |-> out,
             structured |->
                [cumulativeMode |-> cumulativeMode(out, 1),
                 dataCenters |-> dataCentersOf(sectionsOf(out)),
                 errors |->
                    IF stdoutErrors = <<>> THEN fromStderr
                    ELSE <<(IF fromStderr = Undefined THEN <<>> ELSE fromStderr[1])
                           \o stdoutErrors>>,
                 warnings |-> IF warningLines = <<>> THEN Undefined ELSE <<warningLines>>],
             errors |-> IF falsy(err) THEN <<>> ELSE errorLines,
             warnings |-> warningLines]]

----------------------------------------------------------------------------
(* The console report on its own: parseTerminalOutput applied to one       *)
(* transcript.                                                             *)

\* the number of pieces a transcript is put together from
MaxOutLines == 2

DcLine == "Data Center: dc-1"
HeaderLine == "Host  Host Data Ownership (Raw TB)  Number of Tokens  Average"
NewHostLine == "*host1 12.5 50 0.25 (+3.20%)"
NewIpLine == "*10.0.0.2_b  8.0  40  0.20 (-1.50%)"
ErrorLine == "ERROR StatusLogger No log4j2 file"
LowerErrorLine == "  error in lower case"

MaxDevLine == "Max deviation degree: 4.5%"
NoDegreeLine == "Max deviation degree: n/a"
CumulativeLine == "Cumulative mode: false"

\* the start of a datacenter report, and a report with one host row
TableHead == DcLine \o "\n" \o HeaderLine
HostTable == TableHead \o "\n" \o NewHostLine

\* the pieces of a transcript: single lines, and the two multi-line ones
ImbalanceLine == "The simulation projects a data imbalance of greater than 10%"
\* a table that a blank line ends, a header reopens and a summary line ends again
StopAndGo ==
    join(<<HostTable, "", NewIpLine, HeaderLine, NewIpLine, "Highest average: n/a",
           NewHostLine>>, "\n")
\* a table that a summary line ends before its first row
LowStop == join(<<TableHead, "Lowest average: n/a", NewHostLine>>, "\n")
\* a datacenter report whose 'Data Center:' does not begin its line
InlineTable == join(<<"Report for Data Center: dc-2", HeaderLine, NewIpLine>>, "\n")

ConsoleLines ==
    {DcLine, HeaderLine, NewHostLine, NewIpLine, "", ErrorLine, LowerErrorLine,
     CumulativeLine, MaxDevLine, NoDegreeLine, TableHead, HostTable, ImbalanceLine,
     StopAndGo, LowStop, InlineTable}

Transcripts ==
    {join(ls, "\n") : ls \in UNION {SeqsOf(ConsoleLines, k) : k \in 1..MaxOutLines}}

\* the transcripts that are run with every error stream
ErrorTranscripts ==
    LET ls == {DcLine, ErrorLine, LowerErrorLine, HostTable}
    IN  ls \cup {a \o "\n" \o b : a \in ls, b \in ls}

ErrorStreams ==
    {Undefined, <<"">>, <<" \n\t">>, <<"Error response from daemon: failed">>,
     <<"log4j: note\n">>}

InitConsole ==
    /\ NoParse
    /\ NoApi
    /\ pc = "run"
    /\ filename = "" /\ fileType = ""
    /\ content = "" /\ mapping = <<>> /\ badLine = <<>> /\ decoded = <<>>
    /\ \/ stdout \in Transcripts /\ stderr = Undefined
       \/ stdout \in ErrorTranscripts /\ stderr \in ErrorStreams \ {Undefined}
    /\ report = <<>>

Extract ==
    /\ pc = "run"
    /\ report' = parseTerminalOutput(stdout, stderr)
    /\ pc' = "reported"
    /\ UNCHANGED <<outputDir, writes, files, contents, parsedFiles, result, filename,
                   fileType, content, mapping, badLine, decoded, stdout, stderr,
                   apiVars>>

NextConsole == Extract

SpecConsole == InitConsole /\ [][NextConsole]_vars

\* the rows the two starred host lines spell out
ExpectedRow(line) ==
    IF line = NewHostLine
    THEN [host |-> "host1", isNew |-> TRUE,
          hostDataOwnershipRawTB |-> [units |-> 12, frac |-> "5", negative |-> FALSE],
          numberOfTokens |-> 50,
          averageDataOwnershipPerVNodeRawTB |-> [units |-> 0, frac |-> "25", negative |-> FALSE],
          deviationPercent |-> <<[units |-> 3, frac |-> "2", negative |-> FALSE]>>]
    ELSE [host |-> "10.0.0.2_b", isNew |-> TRUE,
          hostDataOwnershipRawTB |-> [units |-> 8, frac |-> "", negative |-> FALSE],
          numberOfTokens |-> 40,
          averageDataOwnershipPerVNodeRawTB |-> [units |-> 0, frac |-> "2", negative |-> FALSE],
          deviationPercent |-> <<[units |-> 1, frac |-> "5", negative |-> TRUE]>>]

\* C8: a transcript of `Data Center: <name>`, the table header and one host line
\* `*<host> <ownership> <tokens> <average> (+<dev>%)` gives one section with one
\* HostRow: isNew true, the host without the star, and the four numbers of the line.
C8_StarredHostRow ==
    \A line \in {NewHostLine, NewIpLine} :
        (pc = "reported" /\ stdout = join(<<DcLine, HeaderLine, line>>, "\n"))
            => /\ Len(report.output.structured.dataCenters) = 1
               /\ report.output.structured.dataCenters[1].name = "dc-1"
               /\ report.output.structured.dataCenters[1].hosts = <<ExpectedRow(line)>>

C8_Witness ==
    /\ pc = "reported"
    /\ stdout = join(<<DcLine, HeaderLine, NewHostLine>>, "\n")
    /\ Len(report.output.structured.dataCenters[1].hosts) = 1
    /\ report.output.structured.dataCenters[1].hosts[1].isNew

StartsWithError(line) == toLowerCase(Sub(line, 1, 5)) = "error"

OnlySpaces(text) == \A i \in 1..Len(text) : IsSpace(Ch(text, i))

\* stderr is not passed, empty or made of white space only
NoErrorStream == stderr = Undefined \/ OnlySpaces(stderr[1])

NoLines(errors) == errors = Undefined \/ errors = <<<<>>>>

\* C9: with an empty stderr and no stdout line that starts with ERROR, success is
\* true and neither the errors of the report nor its structured errors hold a line.
C9_NoErrorsMeansSuccess ==
    (/\ pc = "reported"
     /\ NoErrorStream
     /\ \A i \in 1..Len(split(stdout, "\n")) : ~StartsWithError(split(stdout, "\n")[i]))
        => /\ report.success
           /\ report.output.errors = <<>>
           /\ NoLines(report.output.structured.errors)

\* an empty stderr and a stdout line that has the word error, but not at its start
C9_Witness ==
    /\ pc = "reported"
    /\ stderr = <<"">>
    /\ stdout = join(<<DcLine, LowerErrorLine>>, "\n")
    /\ report.success

\* C10: success is true exactly when stderr is not passed, empty or white space
\* only, whatever stdout holds.
C10_SuccessIffNoStderr ==
    pc = "reported" => (report.success <=> NoErrorStream)

\* an ERROR line in stdout, an empty stderr, and success all the same
C10_Witness ==
    /\ pc = "reported"
    /\ stderr = <<"">>
    /\ stdout = ErrorLine
    /\ report.output.structured.errors = <<<<ErrorLine>>>>
    /\ report.success

\* C11: for every stdout and stderr, parseTerminalOutput returns a report whose raw
\* field is the stdout text unchanged; a transcript without 'Data Center:' gives no
\* datacenter, and what a section's text does not match (storage policy, policy
\* description, the averages, the hosts deviating, a deviation degree without its
\* number, the imbalance message, the cumulative mode) is absent from the structured
\* result.
C11_NeverFailsAndKeepsRaw ==
    pc = "reported" =>
        LET structured == report.output.structured
            dcs == structured.dataCenters
        IN  /\ report.output.raw = stdout
            /\ FirstAt(stdout, "data center:", 1) = 0 => dcs = <<>>
            /\ ~includes(stdout, CumulativeLine) => structured.cumulativeMode = Undefined
            /\ \A i \in 1..Len(dcs) :
                  /\ dcs[i].storagePolicy = Undefined
                  /\ dcs[i].policyDescription = Undefined
                  /\ dcs[i].summary.highestAverage = Undefined
                  /\ dcs[i].summary.lowestAverage = Undefined
                  /\ dcs[i].summary.dataCenterAverage = Undefined
                  /\ dcs[i].summary.hostsDeviating = Undefined
                  /\ dcs[i].summary.deviatingHosts = Undefined
                  /\ ~includes(stdout, ImbalanceLine)
                        => dcs[i].summary.imbalanceMessage = Undefined
                  /\ ~includes(stdout, MaxDevLine)
                        => dcs[i].summary.maxDeviationDegree = Undefined

\* a datacenter report whose deviation degree line carries no number
C11_Witness ==
    /\ pc = "reported"
    /\ stdout = HostTable \o "\n" \o NoDegreeLine
    /\ report.output.raw = stdout
    /\ Len(report.output.structured.dataCenters) = 1
    /\ report.output.structured.dataCenters[1].summary.maxDeviationDegree = Undefined

\* the lines among those of text that member holds and errors does not
C24_Missing(text, errors) ==
    {i \in 1..Len(split(text, "\n")) :
        /\ trim(split(text, "\n")[i]) # ""
        /\ \A e \in 1..Len(errors) : errors[e] # split(text, "\n")[i]}

\* C24: every non-blank line of stderr is among the error lines of the report,
\* and so is every stdout line whose first word, after any leading white
\* space, begins with ERROR in any letter case.
C24_EveryStderrLineIsAnError ==
    pc = "reported"
        => LET errors == IF report.output.structured.errors = Undefined THEN <<>>
                         ELSE report.output.structured.errors[1]
           IN  /\ stderr # Undefined => C24_Missing(stderr[1], errors) = {}
               /\ \A i \in C24_Missing(stdout, errors) :
                      ~StartsWithError(trim(split(stdout, "\n")[i]))

\* the chunks of stdout that name a datacenter and hold a host row, in order
C25_Kept ==
    SelectSeq(sectionsOf(stdout),
              LAMBDA c : /\ afterLabel(c, "data center:", 1) # Undefined
                         /\ hostsOf(split(c, "\n"), FALSE) # <<>>)

\* C25: every datacenter section of the report carries hasImbalance as a boolean:
\* true, with the message, when the section holds the sentence about a data
\* imbalance of greater than N%, and false, without a message, otherwise.
C25_ImbalanceFlagIsExplicit ==
    pc = "reported"
        => LET dcs == report.output.structured.dataCenters
               kept == C25_Kept
           IN  /\ Len(dcs) = Len(kept)
               /\ \A i \in 1..Len(dcs) :
                      LET summary == dcs[i].summary
                      IN  /\ summary.hasImbalance \in BOOLEAN
                          /\ summary.hasImbalance = includes(kept[i], ImbalanceLine)
                          /\ summary.imbalanceMessage =
                                IF summary.hasImbalance
                                THEN <<"Data imbalance of greater than 10%">>
                                ELSE Undefined

\* a host table followed by the imbalance sentence
C25_Witness ==
    /\ pc = "reported"
    /\ stdout = HostTable \o "\n" \o ImbalanceLine
    /\ Len(report.output.structured.dataCenters) = 1
    /\ report.output.structured.dataCenters[1].summary.hasImbalance = TRUE

\* a host table without the sentence: the flag is there and false
C25_FalseWitness ==
    /\ pc = "reported"
    /\ stdout = HostTable
    /\ report.output.structured.dataCenters[1].summary.hasImbalance = FALSE

\* C26: every datacenter section of the report has at least one host row: a chunk
\* that mentions 'Data Center:' and yields no host row is dropped, so a
\* transcript without a table header gives no section at all.
C26_NoSectionWithoutHosts ==
    pc = "reported"
        => LET dcs == report.output.structured.dataCenters
           IN  /\ \A i \in 1..Len(dcs) : Len(dcs[i].hosts) >= 1
               /\ ~includes(stdout, "Number of Tokens") => dcs = <<>>

\* a chunk that names a datacenter and holds a row but no table header
C26_Witness ==
    /\ pc = "reported"
    /\ stdout = DcLine \o "\n" \o NewHostLine
    /\ report.output.structured.dataCenters = <<>>

\* a table that ends before its first row is dropped, the one after it is kept
C26_OneOfTwoWitness ==
    /\ pc = "reported"
    /\ stdout = LowStop \o "\n" \o HostTable
    /\ Len(report.output.structured.dataCenters) = 1

\* the rows of the lines ls as the two-state scan collects them: on says
\* whether table mode is on before the first of the lines
RECURSIVE C27_Rows(_, _)
C27_Rows(ls, on) ==
    IF ls = <<>> THEN <<>>
    ELSE LET line == trim(ls[1])
         IN  IF includes(line, "Host Data Ownership") /\ includes(line, "Number of Tokens")
             THEN C27_Rows(Tail(ls), TRUE)
             ELSE IF ~on THEN C27_Rows(Tail(ls), FALSE)
             ELSE hostRow(line)
                  \o C27_Rows(Tail(ls),
                              /\ line # ""
                              /\ ~includes(line, "Highest average")
                              /\ ~includes(line, "Lowest average"))

\* C27: the host rows of a section are those a two-state scan of its lines
\* collects: table mode starts off, a line containing 'Host Data Ownership' and
\* 'Number of Tokens' switches it on, a blank line or a line containing 'Highest
\* average' or 'Lowest average' switches it off, and a row-shaped line is
\* appended only while it is on.
C27_RowsOnlyInTableMode ==
    pc = "reported"
        => LET dcs == report.output.structured.dataCenters
               kept == C25_Kept
           IN  /\ Len(dcs) = Len(kept)
               /\ \A i \in 1..Len(dcs) :
                      dcs[i].hosts = C27_Rows(split(kept[i], "\n"), FALSE)

\* a row ahead of the report and rows after a blank or summary line are left
\* out, the row after a second header is taken
C27_Witness ==
    /\ pc = "reported"
    /\ stdout = NewIpLine \o "\n" \o StopAndGo
    /\ Len(report.output.structured.dataCenters) = 1
    /\ LET hosts == report.output.structured.dataCenters[1].hosts
       IN  /\ Len(hosts) = 2
           /\ hosts[1].host = "host1"
           /\ hosts[2].host = "10.0.0.2_b"

\* the chunks of s, one from each occurrence of 'Data Center:' at or after from
\* up to the next occurrence
RECURSIVE C28_Chunks(_, _)
C28_Chunks(s, from) ==
    LET p == FirstAt(s, "data center:", from)
        q == IF p = 0 THEN 0 ELSE FirstAt(s, "data center:", p + 1)
    IN  IF p = 0 THEN <<>>
        ELSE IF q = 0 THEN <<Sub(s, p, Len(s))>>
        ELSE <<Sub(s, p, q - 1)>> \o C28_Chunks(s, q)

\* the chunks of stdout that hold a host table with a row, in order
C28_Reports ==
    SelectSeq(C28_Chunks(stdout, 1),
              LAMBDA c : C27_Rows(split(c, "\n"), FALSE) # <<>>)

\* C28: the transcript is cut at every occurrence of 'Data Center:', in any
\* letter case and wherever on a line it occurs: the datacenter reports that hold
\* host rows give one section each, in transcript order, each with its own rows
\* only, and text before the first occurrence gives no section.
C28_OneSectionPerAnchor ==
    pc = "reported"
        => LET dcs == report.output.structured.dataCenters
           IN  /\ Len(dcs) = Len(C28_Reports)
               /\ \A i \in 1..Len(dcs) :
                      dcs[i].hosts = C27_Rows(split(C28_Reports[i], "\n"), FALSE)

\* ---------------------------------------------------------------------------
\* The REST API: authentication, validation and the handlers that read and
\* change the volume.  A handler is suspended at every await; pc names the
\* call it is suspended at, so requests on two connections interleave there.
\* A handler step yields <<the request afterwards, the volume afterwards>>.
\* ---------------------------------------------------------------------------

\* config.apiToken
ApiToken == "secret"

authenticateToken_anyToken(authHeader) ==
    LET words == IF authHeader = Undefined THEN <<>> ELSE split(authHeader[1], " ")
        token == IF Len(words) >= 2 THEN words[2] ELSE ""
    IN  IF token = "" THEN <<"Authentication token required">> ELSE Undefined

\* authenticateToken: the message of the 401 it sends, Undefined when it calls next()
authenticateToken(authHeader) ==
    LET words == IF authHeader = Undefined THEN <<>> ELSE split(authHeader[1], " ")
        token == IF Len(words) >= 2 THEN words[2] ELSE ""
    IN  IF token = "" THEN <<"Authentication token required">>
        ELSE IF token # ApiToken THEN <<"Invalid token">>
        ELSE Undefined

\* .trim().notEmpty().matches(/^[a-zA-Z0-9_-]+$/) on one field: its message or Undefined
validateName(value, label) ==
    IF value = Undefined \/ trim(value[1]) = ""
    THEN <<label \o " is required">>
    ELSE IF CharsOf(trim(value[1])) \subseteq
                (UpperSet \cup LowerSet \cup DigitSet \cup {"_", "-"})
         THEN Undefined
         ELSE <<label \o " must contain only alphanumeric characters, hyphens, and underscores">>

\* validationResult(req): the first message of the route's validators, or
\* Undefined.  A route sees a parameter of the mount path only if its router
\* was made with mergeParams: true; the config and upload routers were not.
validationResult(q) ==
    LET customerName ==
            IF q.kind \in {"createCustomer", "deleteCustomer", "renameCustomer",
                           "createProject", "deleteProject", "run"}
            THEN <<q.customerName>> ELSE Undefined
        projectId ==
            IF q.kind \in {"createProject", "deleteProject", "run"}
            THEN <<q.projectId>> ELSE Undefined
        first == validateName(customerName, "Customer name")
    IN  IF first # Undefined \/ q.kind \in {"createCustomer", "deleteCustomer"}
        THEN first
        ELSE IF q.kind # "renameCustomer" THEN validateName(projectId, "Project ID")
        ELSE IF q.newCustomerName = Undefined THEN Undefined
        ELSE IF trim(q.newCustomerName[1]) = ""
             THEN <<"Customer name cannot be empty">>
             ELSE validateName(q.newCustomerName, "Customer name")

getCustomerPath(customerName) == <<"customers", customerName>>

getProjectPath(customerName, projectId) ==
    getCustomerPath(customerName) \o <<"projects", projectId>>

\* the three input files of a project
ProjectFiles == {"config.yaml", "hsstool_status.txt", "hsstool_ring.txt"}

\* fs.ensureDir: the folder and every missing parent exist afterwards
ensureDir(t, path) == t \cup {SubSeq(path, 1, n) : n \in 1..Len(path)}

\* fs.remove: the path and everything under it are gone afterwards
remove(t, path) ==
    {x \in t : ~(Len(x) >= Len(path) /\ SubSeq(x, 1, Len(path)) = path)}

\* sendError / res.json: the request is answered
Respond(q, status, error) ==
    [q EXCEPT !.pc = "responded", !.status = status, !.error = error]

Quoted(name) == "'" \o name \o "'"

createCustomer_withoutCheck(q, t) ==
    LET customerPath == getCustomerPath(q.customerName)
    IN  CASE q.pc = "customerExists" ->
                <<[q EXCEPT !.pc = "ensureDir"], t>>
          [] q.pc = "ensureDir" ->
                <<[q EXCEPT !.pc = "ensureDirProjects"], ensureDir(t, customerPath)>>
          [] q.pc = "ensureDirProjects" ->
                <<Respond(q, 201, ""), ensureDir(t, customerPath \o <<"projects">>)>>

\* FileManager.createCustomer, then the 201 of POST /api/customers
createCustomer(q, t) ==
    LET customerPath == getCustomerPath(q.customerName)
    IN  CASE q.pc = "customerExists" ->
                IF customerPath \in t
                THEN <<Respond(q, 409, "Customer " \o Quoted(q.customerName)
                                           \o " already exists"), t>>
                ELSE <<[q EXCEPT !.pc = "ensureDir"], t>>
          [] q.pc = "ensureDir" ->
                <<[q EXCEPT !.pc = "ensureDirProjects"], ensureDir(t, customerPath)>>
          [] q.pc = "ensureDirProjects" ->
                <<Respond(q, 201, ""), ensureDir(t, customerPath \o <<"projects">>)>>

\* FileManager.deleteCustomer, then the 200 of DELETE /api/customers/:customerName
deleteCustomer(q, t) ==
    LET customerPath == getCustomerPath(q.customerName)
    IN  CASE q.pc = "customerExists" ->
                IF customerPath \in t
                THEN <<[q EXCEPT !.pc = "remove"], t>>
                ELSE <<Respond(q, 404, "Customer " \o Quoted(q.customerName)
                                           \o " does not exist"), t>>
          [] q.pc = "remove" ->
                <<Respond(q, 200, ""), remove(t, customerPath)>>

\* a move that leaves the source folder where it was
move_keepsSource(t, src, dest) ==
    t \cup {dest \o SubSeq(x, Len(src) + 1, Len(x)) :
                x \in {y \in t : Len(y) >= Len(src) /\ SubSeq(y, 1, Len(src)) = src}}

\* fs.move: the folder src and everything under it are under dest afterwards
move(t, src, dest) ==
    {IF Len(x) >= Len(src) /\ SubSeq(x, 1, Len(src)) = src
     THEN dest \o SubSeq(x, Len(src) + 1, Len(x)) ELSE x : x \in t}

\* PATCH /api/customers/:customerName: the route's own two checks, then
\* FileManager.renameCustomer; fs.move throws when the source is gone or the
\* destination is there
renameCustomer(q, t) ==
    LET oldPath == getCustomerPath(q.customerName)
        newPath == getCustomerPath(q.newCustomerName[1])
        taken == "Customer " \o Quoted(q.newCustomerName[1]) \o " already exists"
    IN  CASE q.pc = "routeCustomerExists" ->
                IF oldPath \in t
                THEN <<[q EXCEPT !.pc = "routeNewExists"], t>>
                ELSE <<Respond(q, 404, "Customer " \o Quoted(q.customerName)
                                           \o " not found"), t>>
          [] q.pc = "routeNewExists" ->
                IF newPath \in t
                THEN <<Respond(q, 409, taken), t>>
                ELSE <<[q EXCEPT !.pc = "customerExists"], t>>
          [] q.pc = "customerExists" ->
                IF oldPath \in t
                THEN <<[q EXCEPT !.pc = "newExists"], t>>
                ELSE <<Respond(q, 404, "Customer " \o Quoted(q.customerName)
                                           \o " does not exist"), t>>
          [] q.pc = "newExists" ->
                IF newPath \in t
                THEN <<Respond(q, 409, taken), t>>
                ELSE <<[q EXCEPT !.pc = "move"], t>>
          [] q.pc = "move" ->
                IF oldPath \notin t \/ newPath \in t
                THEN <<Respond(q, 500, "Failed to rename customer"), t>>
                ELSE <<Respond(q, 200, ""), move(t, oldPath, newPath)>>

\* POST /api/customers/:customerName/projects: the route's own two checks,
\* then FileManager.createProject
createProject(q, t) ==
    LET customerPath == getCustomerPath(q.customerName)
        projectPath == getProjectPath(q.customerName, q.projectId)
        taken == "Project " \o Quoted(q.projectId) \o " already exists for customer "
                     \o Quoted(q.customerName)
    IN  CASE q.pc = "routeCustomerExists" ->
                IF customerPath \in t
                THEN <<[q EXCEPT !.pc = "routeProjectExists"], t>>
                ELSE <<Respond(q, 404, "Customer " \o Quoted(q.customerName)
                                           \o " not found"), t>>
          [] q.pc = "routeProjectExists" ->
                IF projectPath \in t
                THEN <<Respond(q, 409, taken), t>>
                ELSE <<[q EXCEPT !.pc = "customerExists"], t>>
          [] q.pc = "customerExists" ->
                IF customerPath \in t
                THEN <<[q EXCEPT !.pc = "projectExists"], t>>
                ELSE <<Respond(q, 404, "Customer " \o Quoted(q.customerName)
                                           \o " does not exist"), t>>
          [] q.pc = "projectExists" ->
                IF projectPath \in t
                THEN <<Respond(q, 409, taken), t>>
                ELSE <<[q EXCEPT !.pc = "ensureDir"], t>>
          [] q.pc = "ensureDir" ->
                <<[q EXCEPT !.pc = "ensureDirOutput"], ensureDir(t, projectPath)>>
          [] q.pc = "ensureDirOutput" ->
                <<Respond(q, 200, ""), ensureDir(t, projectPath \o <<"output">>)>>

\* DELETE /api/customers/:customerName/projects/:projectId: the route's check,
\* then FileManager.deleteProject
deleteProject(q, t) ==
    LET projectPath == getProjectPath(q.customerName, q.projectId)
        named == "Project " \o Quoted(q.projectId)
        owner == " for customer " \o Quoted(q.customerName)
    IN  CASE q.pc = "routeProjectExists" ->
                IF projectPath \in t
                THEN <<[q EXCEPT !.pc = "projectExists"], t>>
                ELSE <<Respond(q, 404, named \o " not found" \o owner), t>>
          [] q.pc = "projectExists" ->
                IF projectPath \in t
                THEN <<[q EXCEPT !.pc = "remove"], t>>
                ELSE <<Respond(q, 404, named \o " does not exist" \o owner), t>>
          [] q.pc = "remove" ->
                <<Respond(q, 200, ""), remove(t, projectPath)>>

runSimulation_containerFirst(q, t, containerRunning, executed) ==
    LET projectPath == getProjectPath(q.customerName, q.projectId)
    IN  CASE q.pc = "routeProjectExists" ->
                IF ~containerRunning
                THEN Respond(q, 503, "TokenSim container is not running")
                ELSE IF projectPath \in t
                THEN [q EXCEPT !.pc = "configExists"]
                ELSE Respond(q, 404, "Project " \o Quoted(q.projectId)
                                     \o " not found for customer "
                                     \o Quoted(q.customerName))
          [] q.pc = "configExists" ->
                IF projectPath \o <<"config.yaml">> \in t
                THEN [q EXCEPT !.pc = "statusExists"]
                ELSE Respond(q, 400, "Config file not found for project "
                                     \o Quoted(q.projectId)
                                     \o ". Please create config first.")
          [] q.pc = "statusExists" ->
                IF projectPath \o <<"hsstool_status.txt">> \in t
                THEN [q EXCEPT !.pc = "ringExists"]
                ELSE Respond(q, 400, "Status file not found for project "
                                     \o Quoted(q.projectId)
                                     \o ". Please upload status file first.")
          [] q.pc = "ringExists" ->
                IF projectPath \o <<"hsstool_ring.txt">> \in t
                THEN [q EXCEPT !.pc = "runSimulation"]
                ELSE Respond(q, 400, "Ring file not found for project "
                                     \o Quoted(q.projectId)
                                     \o ". Please upload ring file first.")
          [] q.pc = "checkContainer" ->
                [q EXCEPT !.pc = "runSimulation"]
          [] q.pc = "runSimulation" ->
                IF executed
                THEN Respond([q EXCEPT !.ran = TRUE], 200, "")
                ELSE Respond([q EXCEPT !.ran = TRUE], 500, "Simulation execution failed")

\* POST /api/customers/:customerName/projects/:projectId/run; containerRunning
\* is what DockerService.checkContainer answers, executed whether docker exec
\* came back without an error
runSimulation(q, t, containerRunning, executed) ==
    LET projectPath == getProjectPath(q.customerName, q.projectId)
    IN  CASE q.pc = "routeProjectExists" ->
                IF projectPath \in t
                THEN [q EXCEPT !.pc = "configExists"]
                ELSE Respond(q, 404, "Project " \o Quoted(q.projectId)
                                     \o " not found for customer "
                                     \o Quoted(q.customerName))
          [] q.pc = "configExists" ->
                IF projectPath \o <<"config.yaml">> \in t
                THEN [q EXCEPT !.pc = "statusExists"]
                ELSE Respond(q, 400, "Config file not found for project "
                                     \o Quoted(q.projectId)
                                     \o ". Please create config first.")
          [] q.pc = "statusExists" ->
                IF projectPath \o <<"hsstool_status.txt">> \in t
                THEN [q EXCEPT !.pc = "ringExists"]
                ELSE Respond(q, 400, "Status file not found for project "
                                     \o Quoted(q.projectId)
                                     \o ". Please upload status file first.")
          [] q.pc = "ringExists" ->
                IF projectPath \o <<"hsstool_ring.txt">> \in t
                THEN [q EXCEPT !.pc = "checkContainer"]
                ELSE Respond(q, 400, "Ring file not found for project "
                                     \o Quoted(q.projectId)
                                     \o ". Please upload ring file first.")
          [] q.pc = "checkContainer" ->
                IF containerRunning
                THEN [q EXCEPT !.pc = "runSimulation"]
                ELSE Respond(q, 503, "TokenSim container is not running")
          [] q.pc = "runSimulation" ->
                IF executed
                THEN Respond([q EXCEPT !.ran = TRUE], 200, "")
                ELSE Respond([q EXCEPT !.ran = TRUE], 500, "Simulation execution failed")

Kinds ==
    {"health", "createCustomer", "deleteCustomer", "createProject", "deleteProject",
     "putConfig", "putStatus", "run"}

\* PATCH /api/customers/globex with the new name acme in the body or no body
Renames ==
    [kind : {"renameCustomer"}, authorization : {Undefined, <<"Bearer secret">>},
     customerName : {"globex"}, projectId : {""}, newCustomerName : {<<"acme">>},
     pc : {"arrived"}, status : {0}, error : {""}, ran : {FALSE}]
        \cup [kind : {"renameCustomer"}, authorization : {<<"Bearer secret">>},
              customerName : {"globex"}, projectId : {""},
              newCustomerName : {Undefined}, pc : {"arrived"}, status : {0},
              error : {""}, ran : {FALSE}]

\* the Authorization headers a client sends: none, the configured token, another
\* token, and the token without a scheme word in front
Headers == {Undefined, <<"Bearer secret">>, <<"Bearer wrong">>, <<"secret">>}

\* the requests clients send: every route without a header and with the right
\* token, two routes with each of the other headers, and an invalid name
Requests ==
    [kind : Kinds, authorization : {Undefined, <<"Bearer secret">>},
     customerName : {"acme"}, projectId : {"p1"}, newCustomerName : {Undefined},
     pc : {"arrived"}, status : {0}, error : {""}, ran : {FALSE}]
        \cup [kind : {"createCustomer", "run"}, authorization : Headers,
              customerName : {"acme"}, projectId : {"p1"},
              newCustomerName : {Undefined}, pc : {"arrived"},
              status : {0}, error : {""}, ran : {FALSE}]
        \cup [kind : {"createCustomer"}, authorization : {Undefined, <<"Bearer secret">>},
              customerName : {"ac me"}, projectId : {"p1"},
              newCustomerName : {Undefined}, pc : {"arrived"},
              status : {0}, error : {""}, ran : {FALSE}]
        \cup Renames

\* the middleware chain of a route up to the handler's first await:
\* GET /health answers at once; everywhere else authenticateToken comes first,
\* then the validators, whose result the handler turns into a 400
accept(q) ==
    LET denied == authenticateToken(q.authorization)
    IN  IF q.kind = "health" THEN Respond(q, 200, "")
        ELSE IF denied # Undefined THEN Respond(q, 401, denied[1])
        ELSE IF validationResult(q) # Undefined
             THEN Respond(q, 400, validationResult(q)[1])
        ELSE IF q.kind \in {"createCustomer", "deleteCustomer"}
             THEN [q EXCEPT !.pc = "customerExists"]
        ELSE IF q.kind = "renameCustomer" /\ q.newCustomerName = Undefined
             THEN Respond(q, 400, "New customer name is required")
        ELSE IF q.kind \in {"createProject", "renameCustomer"}
             THEN [q EXCEPT !.pc = "routeCustomerExists"]
             ELSE [q EXCEPT !.pc = "routeProjectExists"]

\* a request arrives on a connection that is not busy
Receive(r) ==
    /\ inflight[r].pc \in {"idle", "responded"}
    /\ \E q \in Requests : inflight' = [inflight EXCEPT ![r] = accept(q)]
    /\ UNCHANGED <<tree, container, outputDir, writes, parseVars, runVars>>

PostCustomer(r) ==
    /\ inflight[r].kind = "createCustomer"
    /\ inflight[r].pc \notin {"idle", "responded"}
    /\ LET after == createCustomer(inflight[r], tree)
       IN  inflight' = [inflight EXCEPT ![r] = after[1]] /\ tree' = after[2]
    /\ UNCHANGED <<container, outputDir, writes, parseVars, runVars>>

DeleteCustomer(r) ==
    /\ inflight[r].kind = "deleteCustomer"
    /\ inflight[r].pc \notin {"idle", "responded"}
    /\ LET after == deleteCustomer(inflight[r], tree)
       IN  inflight' = [inflight EXCEPT ![r] = after[1]] /\ tree' = after[2]
    /\ UNCHANGED <<container, outputDir, writes, parseVars, runVars>>

PatchCustomer(r) ==
    /\ inflight[r].kind = "renameCustomer"
    /\ inflight[r].pc \notin {"idle", "responded"}
    /\ LET after == renameCustomer(inflight[r], tree)
       IN  inflight' = [inflight EXCEPT ![r] = after[1]] /\ tree' = after[2]
    /\ UNCHANGED <<container, outputDir, writes, parseVars, runVars>>

PostProject(r) ==
    /\ inflight[r].kind = "createProject"
    /\ inflight[r].pc \notin {"idle", "responded"}
    /\ LET after == createProject(inflight[r], tree)
       IN  inflight' = [inflight EXCEPT ![r] = after[1]] /\ tree' = after[2]
    /\ UNCHANGED <<container, outputDir, writes, parseVars, runVars>>

DeleteProject(r) ==
    /\ inflight[r].kind = "deleteProject"
    /\ inflight[r].pc \notin {"idle", "responded"}
    /\ LET after == deleteProject(inflight[r], tree)
       IN  inflight' = [inflight EXCEPT ![r] = after[1]] /\ tree' = after[2]
    /\ UNCHANGED <<container, outputDir, writes, parseVars, runVars>>

PostRun(r) ==
    /\ inflight[r].kind = "run"
    /\ inflight[r].pc \notin {"idle", "responded"}
    /\ \E executed \in BOOLEAN :
           inflight' = [inflight EXCEPT
                            ![r] = runSimulation(inflight[r], tree, container, executed)]
    /\ UNCHANGED <<tree, container, outputDir, writes, parseVars, runVars>>

\* the volume when the server starts: empty, one customer without projects,
\* another customer with one project, or one project with any of its three
\* input files
Volumes ==
    {{}, ensureDir({}, getCustomerPath("acme") \o <<"projects">>),
     ensureDir({}, getProjectPath("globex", "p1") \o <<"output">>)}
        \cup {ensureDir({}, getProjectPath("acme", "p1") \o <<"output">>)
                  \cup {getProjectPath("acme", "p1") \o <<f>> : f \in present} :
                 present \in SUBSET ProjectFiles}

InitApi ==
    /\ NoParse
    /\ NoRun
    /\ pc = "api"
    /\ tree \in Volumes
    /\ container \in BOOLEAN
    /\ inflight = [r \in Slots |-> Idle]

NextApi ==
    \E r \in Slots :
        \/ Receive(r)
        \/ PostCustomer(r)
        \/ DeleteCustomer(r)
        \/ PatchCustomer(r)
        \/ PostProject(r)
        \/ DeleteProject(r)
        \/ PostRun(r)

SpecApi == InitApi /\ [][NextApi]_vars

\* ---------------------------------------------------------------------------
\* Properties of the API
\* ---------------------------------------------------------------------------

C16_Order ==
    <<[stage |-> "routeProjectExists", status |-> 404, says |-> "Project "],
      [stage |-> "configExists", status |-> 400, says |-> "Config file not found"],
      [stage |-> "statusExists", status |-> 400, says |-> "Status file not found"],
      [stage |-> "ringExists", status |-> 400, says |-> "Ring file not found"],
      [stage |-> "checkContainer", status |-> 503, says |-> "TokenSim container"],
      [stage |-> "runSimulation", status |-> 200, says |-> ""]>>

\* whether the i-th precondition of request q holds in the current state
C16_Holds(i, q) ==
    LET projectPath == getProjectPath(q.customerName, q.projectId)
    IN  CASE i = 1 -> projectPath \in tree
          [] i = 2 -> projectPath \o <<"config.yaml">> \in tree
          [] i = 3 -> projectPath \o <<"hsstool_status.txt">> \in tree
          [] i = 4 -> projectPath \o <<"hsstool_ring.txt">> \in tree
          [] i = 5 -> container

\* C16: the handler of POST .../run starts with the project check and takes
\* the checks one after the other: project (404), config.yaml (400),
\* hsstool_status.txt (400), hsstool_ring.txt (400), container (503).  A check
\* that fails answers its own error at once, a check that holds leads to the
\* next one, the simulator is run only from the step after the container
\* check, and no step that answers one of these errors has run it.
C16_RunChecksInOrder ==
    [][\A r \in Slots :
          LET q == inflight[r]
              after == inflight'[r]
          IN  /\ (q.pc \in {"idle", "responded"} /\ after.kind = "run"
                      /\ after.pc # "responded" /\ after # q)
                     => after.pc = C16_Order[1].stage /\ ~after.ran
              /\ (q.kind = "run" /\ q.pc \notin {"idle", "responded"} /\ after # q)
                     => \/ \E i \in 1..5 :
                              /\ q.pc = C16_Order[i].stage
                              /\ ~after.ran
                              /\ IF C16_Holds(i, q)
                                 THEN after.pc = C16_Order[i + 1].stage
                                 ELSE /\ after.pc = "responded"
                                      /\ after.status = C16_Order[i].status
                                      /\ startsWith(after.error, C16_Order[i].says)
                        \/ /\ q.pc = "runSimulation"
                           /\ after.pc = "responded"
                           /\ after.ran
                           /\ after.status \in {200, 500}]_vars

\* a run request for a project with all three files was answered 503 without
\* running the simulator, because the container is not running
C16_Witness ==
    \E r \in Slots :
        /\ inflight[r].kind = "run"
        /\ inflight[r].pc = "responded"
        /\ inflight[r].status = 503
        /\ ~inflight[r].ran
        /\ ~container
        /\ {getProjectPath("acme", "p1") \o <<f>> : f \in ProjectFiles} \subseteq tree

\* C17: when a create request looks whether its name is taken and it is, that
\* step answers 409 and leaves the volume as it was; when a create-project
\* request looks for its customer and there is none, that step answers 404 and
\* leaves the volume as it was.  No step that answers a create request with
\* 409 or 404 changes the volume.
C17_TakenNameIsRejected ==
    [][\A r \in Slots :
          LET q == inflight[r]
              after == inflight'[r]
              customerPath == getCustomerPath(q.customerName)
              projectPath == getProjectPath(q.customerName, q.projectId)
              rejected(status) ==
                  /\ after.pc = "responded"
                  /\ after.status = status
                  /\ tree' = tree
          IN  /\ (q.kind = "createCustomer" /\ q.pc = "customerExists"
                      /\ after # q /\ customerPath \in tree)
                     => rejected(409)
              /\ (q.kind = "createProject"
                      /\ q.pc \in {"routeProjectExists", "projectExists"}
                      /\ after # q /\ projectPath \in tree)
                     => rejected(409)
              /\ (q.kind = "createProject"
                      /\ q.pc \in {"routeCustomerExists", "customerExists"}
                      /\ after # q /\ customerPath \notin tree)
                     => rejected(404)
              /\ (q.kind \in {"createCustomer", "createProject"}
                      /\ q.pc \notin {"idle", "responded"}
                      /\ after # q /\ after.status \in {404, 409})
                     => tree' = tree]_vars

\* a create-customer request and a create-project request were both answered
\* 409 and the project they name still holds its three files
C17_Witness ==
    \E a \in Slots, b \in Slots :
        /\ inflight[a].kind = "createCustomer"
        /\ inflight[a].pc = "responded"
        /\ inflight[a].status = 409
        /\ inflight[b].kind = "createProject"
        /\ inflight[b].pc = "responded"
        /\ inflight[b].status = 409
        /\ {getProjectPath("acme", "p1") \o <<f>> : f \in ProjectFiles} \subseteq tree

\* a create-project request was answered 404 and the volume is still empty
C17_NoCustomerWitness ==
    \E r \in Slots :
        /\ inflight[r].kind = "createProject"
        /\ inflight[r].pc = "responded"
        /\ inflight[r].status = 404
        /\ tree = {}

\* the paths of volume t under the customer folder of name, seen from that folder
C29_Holdings(t, name) ==
    {SubSeq(x, 3, Len(x)) :
        x \in {y \in t : Len(y) >= 2 /\ SubSeq(y, 1, 2) = getCustomerPath(name)}}

\* C29: a rename request is all-or-nothing.  The step that looks for the old
\* name and does not find it answers 404, the step that looks for the new name
\* and finds it answers 409, and no step that does not answer 200 changes the
\* volume; the step that answers 200 leaves no folder of the old name, and the
\* new name holds exactly what the old name held, every other customer being
\* as before.
C29_RenameIsAllOrNothing ==
    [][\A r \in Slots :
          LET q == inflight[r]
              after == inflight'[r]
          IN  (q.kind = "renameCustomer" /\ q.pc \notin {"idle", "responded"}
                   /\ after # q)
                  => LET old == q.customerName
                         new == q.newCustomerName[1]
                     IN  /\ (/\ q.pc \in {"routeCustomerExists", "customerExists"}
                              /\ getCustomerPath(old) \notin tree)
                                => after.pc = "responded" /\ after.status = 404
                         /\ (/\ q.pc \in {"routeNewExists", "newExists"}
                              /\ getCustomerPath(new) \in tree)
                                => after.pc = "responded" /\ after.status = 409
                         /\ after.status # 200 => tree' = tree
                         /\ after.status = 200
                                => /\ getCustomerPath(old) \in tree
                                   /\ C29_Holdings(tree, new) = {}
                                   /\ C29_Holdings(tree', old) = {}
                                   /\ C29_Holdings(tree', new) = C29_Holdings(tree, old)
                                   /\ <<"projects", "p1">> \in C29_Holdings(tree', new)
                                   /\ remove(tree', getCustomerPath(new))
                                        = remove(tree, getCustomerPath(old))]_vars

\* a rename was answered 200: the old name is gone and the new name holds its
\* project
C29_Witness ==
    \E r \in Slots :
        /\ inflight[r].kind = "renameCustomer"
        /\ inflight[r].pc = "responded"
        /\ inflight[r].status = 200
        /\ getCustomerPath("globex") \notin tree
        /\ getProjectPath("acme", "p1") \o <<"output">> \in tree

\* a rename was answered 409 and both customers are still there
C29_TakenWitness ==
    \E r \in Slots :
        /\ inflight[r].kind = "renameCustomer"
        /\ inflight[r].pc = "responded"
        /\ inflight[r].status = 409
        /\ getProjectPath("globex", "p1") \in tree
        /\ getCustomerPath("acme") \in tree

\* a rename was answered 404 on a volume without customers
C29_MissingWitness ==
    \E r \in Slots :
        /\ inflight[r].kind = "renameCustomer"
        /\ inflight[r].pc = "responded"
        /\ inflight[r].status = 404
        /\ tree = {}

\* C30: creation is exclusive: two create requests for the same customer name,
\* or for the same project id of one customer, are never both past their
\* existence check with the folder still to be made, so that at most one of
\* them answers success and the other is answered 409.
C30_CreationIsExclusive ==
    \A a \in Slots, b \in Slots :
        (/\ a # b
         /\ inflight[a].kind = inflight[b].kind
         /\ inflight[a].customerName = inflight[b].customerName
         /\ inflight[a].projectId = inflight[b].projectId)
            => /\ ~(/\ inflight[a].kind = "createCustomer"
                    /\ inflight[a].pc \in {"ensureDir", "ensureDirProjects"}
                    /\ inflight[b].pc \in {"ensureDir", "ensureDirProjects"})
               /\ ~(/\ inflight[a].kind = "createProject"
                    /\ inflight[a].pc \in {"ensureDir", "ensureDirOutput"}
                    /\ inflight[b].pc \in {"ensureDir", "ensureDirOutput"})

====
